---- MODULE Spec2Model ----
(***************************************************************************)
(* Model of the subtitle translation pipeline of subtitles-translate:      *)
(* the chunk planner (chunking.ts), the chunk and whole-file validators    *)
(* (validation.ts), the concurrent orchestrator translateTranscript        *)
(* (translation.ts) and translateSRTContent, which drives them and         *)
(* reconstructs the subtitle file.                                         *)
(*                                                                         *)
(* Six specifications share the module:                                    *)
(*   SpecChunk    createIntelligentChunks, one action per loop iteration   *)
(*   SpecValidate validateChunk applied to bounded inputs                  *)
(*   Spec         translateSRTContent / translateTranscript: one action    *)
(*                per continuation of the asynchronous code                *)
(*   SpecText     the parsers and writers of srt.ts and transcript.ts and  *)
(*                the whole-file validator applied to bounded inputs       *)
(*   SpecAttempt  translateChunkAttempt with its request/response logger,  *)
(*                one action per await                                     *)
(*   SpecProgress translateTranscript for long files: the chunk sizes and  *)
(*                the progress reports, one action per resolved chunk      *)
(* Sequences are 1-based here and 0-based in the source; positions that    *)
(* the source computes (currentIndex, break points) keep the source's      *)
(* 0-based values.                                                         *)
(***************************************************************************)
EXTENDS Integers, Sequences, FiniteSets, TLC

VARIABLES
    \* ---- createIntelligentChunks (SpecChunk)
    cSegments,        \* the segments argument
    maxChunkSize,     \* the maxChunkSize argument
    contextSize,      \* the contextSize argument
    naturalBreaks,    \* const naturalBreaks
    currentIndex,     \* let currentIndex
    chunkIndex,       \* let chunkIndex
    cChunks,          \* const chunks (the returned array once cPc = "done")
    cPc,              \* position in the function: "start", "loop", "done"
    \* ---- validateChunk (SpecValidate)
    vChunk,           \* the chunk argument
    vEntries,         \* the translatedEntries argument
    vResult,          \* <<>> before the call, then what each validator did
    \* ---- translateSRTContent / translateTranscript (Spec)
    originalSegments, \* parseSRTContent(srtContent)
    onProgress,       \* TRUE when the caller passed a progress callback
    chunks,           \* translateTranscript: const chunks
    tasks,            \* one record per chunk promise (translateChunk's locals)
    arrival,          \* chunk indices in the order their promises fulfilled
    completedSegments,\* translateTranscript: let completedSegments
    progressLock,     \* translateTranscript: progressLock.value
    progressEvents,   \* every argument onProgress was called with, in order
    pc,               \* where translateSRTContent is (see Spec below)
    translateError,   \* the Error translateTranscript rejected with
    translatedEntries,\* translationResult.translatedEntries
    output,           \* what translateSRTContent returned or threw
    \* ---- srt.ts / transcript.ts / validateTranslation (SpecText)
    tKind,            \* what the input is: "srt", "reply" or "lists"
    tParts,           \* the blocks or lines the input text is made of
    tText,            \* the input text
    tSegments,        \* the originalSegments argument ("lists")
    tEntries,         \* the translatedEntries argument ("lists")
    tCall,            \* "none" before the call, then what was called
    tResult,          \* what the call returned (a record), <<>> before it
    \* ---- translateChunkAttempt (SpecAttempt)
    aChunk,           \* the chunk argument
    aReply,           \* what generateContent will do
    aLogFails,        \* for each logger method, how its file write will fail
    aPc,              \* the await translateChunkAttempt is at, or how it ended
    aLogged,          \* the logger calls made so far and whether they wrote
    aError,           \* the error caught or thrown
    aResult,          \* the entries returned
    pTotalSegments,   \* transcript.length
    pOnProgress,      \* whether a progress callback was passed
    pChunkSizes,      \* translateSegments.length of every chunk
    pResolved,        \* the chunks whose task has resolved
    pCompletedSegments, \* completedSegments
    pProgressLock,    \* progressLock.value
    pCalls,           \* how many times onProgress was called
    pLastEvent,       \* the argument of the last onProgress call
    pPc               \* where translateTranscript is

chunkVars == <<cSegments, maxChunkSize, contextSize, naturalBreaks,
               currentIndex, chunkIndex, cChunks, cPc>>

validateVars == <<vChunk, vEntries, vResult>>

runVars == <<originalSegments, onProgress, chunks, tasks, arrival,
             completedSegments, progressLock, progressEvents, pc,
             translateError, translatedEntries, output>>

textVars == <<tKind, tParts, tText, tSegments, tEntries, tCall, tResult>>

attemptVars == <<aChunk, aReply, aLogFails, aPc, aLogged, aError, aResult>>

progressVars == <<pTotalSegments, pOnProgress, pChunkSizes, pResolved,
                  pCompletedSegments, pProgressLock, pCalls, pLastEvent, pPc>>

vars == <<chunkVars, validateVars, runVars, textVars, attemptVars, progressVars>>

-----------------------------------------------------------------------------
(* Bounds of the model *)

\* longest segment list given to createIntelligentChunks in SpecChunk
MaxSegs == 7
\* largest maxChunkSize argument tried in SpecChunk
MaxChunkArg == 4
\* largest contextSize argument tried in SpecChunk
MaxContextArg == 3
\* cap on the number of loop iterations of createIntelligentChunks
MaxIterations == 9
\* validateChunk inputs: sequence numbers 1..MaxValNum expected (one more
\* number can be returned), at most MaxValLen segments to translate (one more
\* entry can be returned)
MaxValNum == 3
MaxValLen == 2
\* longest subtitle file (in segments) given to translateSRTContent in Spec;
\* with the orchestrator's chunk size of 25 this gives runs of one and of two
\* concurrent chunks
MaxFileSegments == 27
\* most blocks in a subtitle text given to parseSRTContent in SpecText
MaxBlocks == 3
\* most lines in a reply text given to parseTranslatedTranscript in SpecText
MaxReplyLines == 3
\* longest segment list and entry list given to validateTranslation and
\* reconstructSRT in SpecText; the segments are numbered within
\* 1..MaxListLen, the entries within 1..MaxListLen + 1
MaxListLen == 2
\* analyzeTranslationFailure: segment numbers 1..MaxAnalysisNum, entry numbers
\* 1..MaxAnalysisNum + 1
MaxAnalysisNum == 5
\* SpecProgress: transcripts of 0..MaxTranscript entries
MaxTranscript == 201

-----------------------------------------------------------------------------
(* Generic helpers: JavaScript array primitives *)

Min(a, b) == IF a <= b THEN a ELSE b
Max(a, b) == IF a >= b THEN a ELSE b

Range(s) == {s[i] : i \in 1..Len(s)}

\* Array.prototype.slice(start, end) with 0-based, half-open, clipped indices;
\* a negative index counts from the end.
Slice(s, start, end) ==
    LET rel(k) == IF k < 0 THEN Max(Len(s) + k, 0) ELSE Min(k, Len(s))
        from == rel(start)
        to == rel(end)
    IN  IF from >= to THEN <<>> ELSE SubSeq(s, from + 1, to)

\* naturalBreaks.find(b => b > lower && b <= upper), scanning from position
\* i: the first such break point; the source's `undefined` is 0 here (both
\* are falsy, and no break point is 0).
RECURSIVE FindBreak(_, _, _, _)
FindBreak(breaks, lower, upper, i) ==
    IF i > Len(breaks) THEN 0
    ELSE IF breaks[i] > lower /\ breaks[i] <= upper THEN breaks[i]
    ELSE FindBreak(breaks, lower, upper, i + 1)

\* [...a, ...b] / Array.prototype.push(...b)
Concat(a, b) == a \o b

\* [...new Set(s)]: a Set iterates in insertion order, each value once, so
\* the first occurrence of every value is kept
SetOrder(s) ==
    LET firsts == SelectSeq([i \in 1..Len(s) |-> i],
                            LAMBDA i : \A j \in 1..(i - 1) : s[j] # s[i])
    IN  [k \in 1..Len(firsts) |-> s[firsts[k]]]

\* numbers.sort((a, b) => a - b), as a stable merge sort
RECURSIVE MergeNumbers(_, _, _, _, _)
MergeNumbers(a, i, b, j, merged) ==
    IF i > Len(a) THEN merged \o SubSeq(b, j, Len(b))
    ELSE IF j > Len(b) THEN merged \o SubSeq(a, i, Len(a))
    ELSE IF a[i] <= b[j] THEN MergeNumbers(a, i + 1, b, j, Append(merged, a[i]))
    ELSE MergeNumbers(a, i, b, j + 1, Append(merged, b[j]))

RECURSIVE SortNumbers(_)
SortNumbers(s) ==
    IF Len(s) <= 1 THEN s
    ELSE LET half == Len(s) \div 2
         IN  MergeNumbers(SortNumbers(SubSeq(s, 1, half)), 1,
                          SortNumbers(SubSeq(s, half + 1, Len(s))), 1, <<>>)

RECURSIVE Flatten(_)
Flatten(ss) == IF ss = <<>> THEN <<>> ELSE Head(ss) \o Flatten(Tail(ss))

-----------------------------------------------------------------------------
(* Timestamps.  A timestamp string "HH:MM:SS,mmm" is the tuple             *)
(* <<HH, MM, SS, mmm>>; a string the pattern does not match is <<>>.       *)

ParseTimestamp(timestamp) ==
    IF Len(timestamp) < 4 THEN 0
    ELSE timestamp[1] * 3600000 + timestamp[2] * 60000
         + timestamp[3] * 1000 + timestamp[4]

\* the timestamp string of a number of milliseconds (builds the inputs)
FormatTimestamp(ms) ==
    << ms \div 3600000, (ms \div 60000) % 60, (ms \div 1000) % 60, ms % 1000 >>

-----------------------------------------------------------------------------
(* chunking.ts *)

\* a gap of more than this many milliseconds is a natural break
NaturalBreakGapMs == 3000

\* detectNaturalBreaks: the ascending list of break points i + 1 (0-based i)
\* such that segments[i + 1] starts more than 3 s after segments[i] ends.
DetectNaturalBreaks(segments) ==
    LET idx == [k \in 1..(IF Len(segments) = 0 THEN 0 ELSE Len(segments) - 1) |-> k]
        isBreak(k) ==
            ParseTimestamp(segments[k + 1].startTime)
              - ParseTimestamp(segments[k].endTime) > NaturalBreakGapMs
    IN  SelectSeq(idx, isBreak)

\* Math.floor(chunkSize * 0.3): the search window for a break taken as the
\* last 70% of the tentative chunk
FloorThirtyPercent(chunkSize) == (chunkSize * 3) \div 10

\* Math.floor(chunkSize * 0.7); equal to the IEEE double result for every
\* chunkSize in 0..89 (the first difference is at 90).
FloorSeventyPercent(chunkSize) == (chunkSize * 7) \div 10

\* ChunkSizeAt with the break point taken as a size (the "- currentIndex" of
\* line 71 dropped).
ChunkSizeAtBreakAsSize(segments, maxSize, breaks, current) ==
    LET remainingSegments == Len(segments) - current
        chunkSize == Min(maxSize, remainingSegments)
        chunkEnd == current + chunkSize
        nearbyBreak ==
            FindBreak(breaks, current + FloorSeventyPercent(chunkSize), chunkEnd, 1)
    IN  IF nearbyBreak # 0 /\ nearbyBreak < Len(segments)
        THEN nearbyBreak
        ELSE chunkSize

\* The chunk size chosen by one loop iteration (lines 59-72).
ChunkSizeAt(segments, maxSize, breaks, current) ==
    LET remainingSegments == Len(segments) - current
        chunkSize == Min(maxSize, remainingSegments)
        chunkEnd == current + chunkSize
        nearbyBreak ==
            FindBreak(breaks, current + FloorSeventyPercent(chunkSize), chunkEnd, 1)
    IN  IF nearbyBreak # 0 /\ nearbyBreak < Len(segments)
        THEN nearbyBreak - current
        ELSE chunkSize

\* BuildChunk with contextStart not clamped at 0 (the Math.max of line 75
\* dropped): a negative start makes slice count from the end of the list.
BuildChunkUnclamped(segments, ctxSize, current, chunkSize, index) ==
    LET contextStart == current - ctxSize
        contextSegments ==
            IF current > 0 THEN Slice(segments, contextStart, current) ELSE <<>>
        translateSegments == Slice(segments, current, current + chunkSize)
    IN  [ segments |-> Concat(contextSegments, translateSegments),
          contextSegments |-> contextSegments,
          translateSegments |-> translateSegments,
          chunkIndex |-> index,
          totalChunks |-> 0 ]

\* The chunk pushed by one loop iteration (lines 74-94).
BuildChunk(segments, ctxSize, current, chunkSize, index) ==
    LET contextStart == Max(0, current - ctxSize)
        contextSegments ==
            IF current > 0 THEN Slice(segments, contextStart, current) ELSE <<>>
        translateSegments == Slice(segments, current, current + chunkSize)
    IN  [ segments |-> Concat(contextSegments, translateSegments),
          contextSegments |-> contextSegments,
          translateSegments |-> translateSegments,
          chunkIndex |-> index,
          totalChunks |-> 0 ]

\* the early return of lines 39-50
SingleChunk(segments) ==
    << [ segments |-> segments,
         contextSegments |-> <<>>,
         translateSegments |-> segments,
         chunkIndex |-> 0,
         totalChunks |-> 1 ] >>

\* the chunks returned as the loop pushed them, totalChunks left at 0
StampTotalChunksSkipped(built) == built

\* chunks.forEach((chunk) => { chunk.totalChunks = chunks.length })
StampTotalChunks(built) ==
    [i \in 1..Len(built) |-> [built[i] EXCEPT !.totalChunks = Len(built)]]

\* The while loop of lines 58-98 run to completion.  Used where the caller
\* passes maxChunkSize >= 1, for which every iteration advances.
RECURSIVE ChunkLoop(_, _, _, _, _, _, _)
ChunkLoop(segments, maxSize, ctxSize, breaks, current, index, built) ==
    IF ~(current < Len(segments)) THEN built
    ELSE LET size == ChunkSizeAt(segments, maxSize, breaks, current)
         IN  ChunkLoop(segments, maxSize, ctxSize, breaks, current + size, index + 1,
                       Append(built, BuildChunk(segments, ctxSize, current, size, index)))

CreateIntelligentChunks(segments, maxSize, ctxSize) ==
    IF Len(segments) <= maxSize THEN SingleChunk(segments)
    ELSE StampTotalChunks(
             ChunkLoop(segments, maxSize, ctxSize, DetectNaturalBreaks(segments),
                       0, 0, <<>>))

-----------------------------------------------------------------------------
(* validation.ts.  A thrown Error is a record: `kind` names the throw site, *)
(* `chunk` is <<chunkIndex + 1, totalChunks>> when the message starts with  *)
(* "Chunk i/N" and <<>> otherwise, `expected` and `actual` are the number   *)
(* lists the message prints after "Expected segments:" and "Got segments:", *)
(* `listed` the numbers it prints as missing or unexpected, and `markers`   *)
(* the substrings of the message that translateChunk later searches for.    *)

NoError ==
    [ threw |-> FALSE, kind |-> "none", chunk |-> <<>>, expected |-> <<>>,
      actual |-> <<>>, listed |-> <<>>, markers |-> {} ]

\* the three substrings translateChunk looks for (translation.ts lines 43-45);
\* every message of validateChunk contains all three
RetryMarkers == {"validation failed", "Expected", "Got segments"}

SequencesOf(segments) == [i \in 1..Len(segments) |-> segments[i].sequence]
NumbersOf(entries) == [i \in 1..Len(entries) |-> entries[i].number]

\* array.filter(n => !set.has(n))
NotIn(list, other) ==
    LET others == Range(other)
    IN  SelectSeq(list, LAMBDA n : n \notin others)

\* validateChunk with the counts and numbers taken from chunk.segments
\* (context + translate) instead of chunk.translateSegments
ValidateChunkAllSegments(chunk, entries) ==
    LET expectedCount == Len(chunk.segments)
        actualCount == Len(entries)
        label == <<chunk.chunkIndex + 1, chunk.totalChunks>>
        expectedNumbers == SetOrder(SequencesOf(chunk.segments))
        actualNumbers == SetOrder(NumbersOf(entries))
        missingNumbers == NotIn(expectedNumbers, actualNumbers)
        extraNumbers == NotIn(actualNumbers, expectedNumbers)
    IN  IF expectedCount # actualCount
        THEN [ threw |-> TRUE, kind |-> "count", chunk |-> label,
               expected |-> SequencesOf(chunk.segments),
               actual |-> NumbersOf(entries),
               listed |-> <<>>, markers |-> RetryMarkers ]
        ELSE IF Len(missingNumbers) > 0
        THEN [ threw |-> TRUE, kind |-> "missing", chunk |-> label,
               expected |-> SortNumbers(expectedNumbers),
               actual |-> SortNumbers(actualNumbers),
               listed |-> missingNumbers, markers |-> RetryMarkers ]
        ELSE IF Len(extraNumbers) > 0
        THEN [ threw |-> TRUE, kind |-> "extra", chunk |-> label,
               expected |-> SortNumbers(expectedNumbers),
               actual |-> SortNumbers(actualNumbers),
               listed |-> extraNumbers, markers |-> RetryMarkers ]
        ELSE NoError

\* validateChunk with only the count check of lines 12-19 (the set
\* comparison of lines 21-43 left out)
ValidateChunkCountOnly(chunk, entries) ==
    IF Len(chunk.translateSegments) # Len(entries)
    THEN [ threw |-> TRUE, kind |-> "count",
           chunk |-> <<chunk.chunkIndex + 1, chunk.totalChunks>>,
           expected |-> SequencesOf(chunk.translateSegments),
           actual |-> NumbersOf(entries),
           listed |-> <<>>, markers |-> RetryMarkers ]
    ELSE NoError

\* validateChunk with the check for extra numbers made before the check
\* for missing ones
ValidateChunkExtraFirst(chunk, entries) ==
    LET expectedCount == Len(chunk.translateSegments)
        actualCount == Len(entries)
        label == <<chunk.chunkIndex + 1, chunk.totalChunks>>
        expectedNumbers == SetOrder(SequencesOf(chunk.translateSegments))
        actualNumbers == SetOrder(NumbersOf(entries))
        missingNumbers == NotIn(expectedNumbers, actualNumbers)
        extraNumbers == NotIn(actualNumbers, expectedNumbers)
    IN  IF expectedCount # actualCount
        THEN [ threw |-> TRUE, kind |-> "count", chunk |-> label,
               expected |-> SequencesOf(chunk.translateSegments),
               actual |-> NumbersOf(entries),
               listed |-> <<>>, markers |-> RetryMarkers ]
        ELSE IF Len(extraNumbers) > 0
        THEN [ threw |-> TRUE, kind |-> "extra", chunk |-> label,
               expected |-> SortNumbers(expectedNumbers),
               actual |-> SortNumbers(actualNumbers),
               listed |-> extraNumbers, markers |-> RetryMarkers ]
        ELSE IF Len(missingNumbers) > 0
        THEN [ threw |-> TRUE, kind |-> "missing", chunk |-> label,
               expected |-> SortNumbers(expectedNumbers),
               actual |-> SortNumbers(actualNumbers),
               listed |-> missingNumbers, markers |-> RetryMarkers ]
        ELSE NoError

\* validateChunk (lines 5-44): the Error it throws, or NoError
ValidateChunk(chunk, entries) ==
    LET expectedCount == Len(chunk.translateSegments)
        actualCount == Len(entries)
        label == <<chunk.chunkIndex + 1, chunk.totalChunks>>
        expectedNumbers == SetOrder(SequencesOf(chunk.translateSegments))
        actualNumbers == SetOrder(NumbersOf(entries))
        missingNumbers == NotIn(expectedNumbers, actualNumbers)
        extraNumbers == NotIn(actualNumbers, expectedNumbers)
    IN  IF expectedCount # actualCount
        THEN [ threw |-> TRUE, kind |-> "count", chunk |-> label,
               expected |-> SequencesOf(chunk.translateSegments),
               actual |-> NumbersOf(entries),
               listed |-> <<>>, markers |-> RetryMarkers ]
        ELSE IF Len(missingNumbers) > 0
        THEN [ threw |-> TRUE, kind |-> "missing", chunk |-> label,
               expected |-> SortNumbers(expectedNumbers),
               actual |-> SortNumbers(actualNumbers),
               listed |-> missingNumbers, markers |-> RetryMarkers ]
        ELSE IF Len(extraNumbers) > 0
        THEN [ threw |-> TRUE, kind |-> "extra", chunk |-> label,
               expected |-> SortNumbers(expectedNumbers),
               actual |-> SortNumbers(actualNumbers),
               listed |-> extraNumbers, markers |-> RetryMarkers ]
        ELSE NoError

\* validateTranslation with the count check alone
ValidateTranslationCountOnly(segments, entries) ==
    IF Len(segments) # Len(entries)
    THEN [NoError EXCEPT !.threw = TRUE, !.kind = "count"]
    ELSE NoError

\* validateTranslation with the unexpected numbers reported before the
\* missing ones
ValidateTranslationExtraFirst(segments, entries) ==
    LET originalNumbers == SetOrder(SequencesOf(segments))
        translatedNumbers == SetOrder(NumbersOf(entries))
        missingNumbers == NotIn(originalNumbers, translatedNumbers)
        extraNumbers == NotIn(translatedNumbers, originalNumbers)
    IN  IF Len(segments) # Len(entries)
        THEN [NoError EXCEPT !.threw = TRUE, !.kind = "count"]
        ELSE IF Len(extraNumbers) > 0
        THEN [NoError EXCEPT !.threw = TRUE, !.kind = "extra",
                             !.listed = extraNumbers]
        ELSE IF Len(missingNumbers) > 0
        THEN [NoError EXCEPT !.threw = TRUE, !.kind = "missing",
                             !.listed = missingNumbers]
        ELSE NoError

\* validateTranslation (lines 46-80): the Error it throws, or NoError.  Its
\* messages name no chunk, print no expected/actual lists and contain none of
\* the retry markers.
ValidateTranslation(segments, entries) ==
    LET originalCount == Len(segments)
        translatedCount == Len(entries)
        originalNumbers == SetOrder(SequencesOf(segments))
        translatedNumbers == SetOrder(NumbersOf(entries))
        missingNumbers == NotIn(originalNumbers, translatedNumbers)
        extraNumbers == NotIn(translatedNumbers, originalNumbers)
    IN  IF originalCount # translatedCount
        THEN [NoError EXCEPT !.threw = TRUE, !.kind = "count"]
        ELSE IF Len(missingNumbers) > 0
        THEN [NoError EXCEPT !.threw = TRUE, !.kind = "missing",
                             !.listed = missingNumbers]
        ELSE IF Len(extraNumbers) > 0
        THEN [NoError EXCEPT !.threw = TRUE, !.kind = "extra",
                             !.listed = extraNumbers]
        ELSE NoError

\* sequenceGaps with every missing number as a range of its own
SequenceGapsOneEach(missingNumbers) ==
    [i \in 1..Len(missingNumbers) |->
        [start |-> missingNumbers[i], end |-> missingNumbers[i]]]

\* the for loop of analyzeTranslationFailure (lines 104-112) from index i
\* (1-based), and the push after it (line 113)
RECURSIVE GapLoop(_, _, _, _, _)
GapLoop(missingNumbers, i, gapStart, gapEnd, sequenceGaps) ==
    IF i > Len(missingNumbers)
    THEN Append(sequenceGaps, [start |-> gapStart, end |-> gapEnd])
    ELSE LET current == missingNumbers[i]
         IN  IF current = gapEnd + 1
             THEN GapLoop(missingNumbers, i + 1, gapStart, current, sequenceGaps)
             ELSE GapLoop(missingNumbers, i + 1, current, current,
                          Append(sequenceGaps, [start |-> gapStart, end |-> gapEnd]))

\* lines 99-114
SequenceGaps(missingNumbers) ==
    IF Len(missingNumbers) > 0
    THEN GapLoop(missingNumbers, 2, missingNumbers[1], missingNumbers[1], <<>>)
    ELSE <<>>

\* analyzeTranslationFailure (lines 82-118) without the insights texts
AnalyzeTranslationFailure(segments, entries) ==
    LET originalNumbers == SetOrder(SequencesOf(segments))
        translatedNumbers == SetOrder(NumbersOf(entries))
        missingNumbers == SortNumbers(NotIn(originalNumbers, translatedNumbers))
        extraNumbers == SortNumbers(NotIn(translatedNumbers, originalNumbers))
    IN  [ missingNumbers |-> missingNumbers,
          extraNumbers |-> extraNumbers,
          sequenceGaps |-> SequenceGaps(missingNumbers) ]

-----------------------------------------------------------------------------
(* srt.ts, transcript.ts *)

\* createTranscript
CreateTranscript(segments) ==
    [i \in 1..Len(segments) |->
        [number |-> segments[i].sequence, text |-> segments[i].text]]

\* translatedMap.get(n) after the map was filled from the entries in order:
\* the text of the last entry numbered n, "" when there is none (the source
\* tests the value with `!translatedText`, which holds for both)
MapGet(entries, n) ==
    LET hits == {i \in 1..Len(entries) : entries[i].number = n}
    IN  IF hits = {} THEN ""
        ELSE entries[CHOOSE i \in hits : \A j \in hits : j <= i].text

NoOutput == [threw |-> FALSE, kind |-> "none", blocks |-> <<>>, error |-> NoError]

\* reconstructSRT with the blocks numbered by position instead of by
\* segment.sequence
ReconstructSRTRenumbered(segments, entries) ==
    LET missing == {i \in 1..Len(segments) : MapGet(entries, segments[i].sequence) = ""}
    IN  IF missing # {}
        THEN [ threw |-> TRUE, kind |-> "missingTranslation", blocks |-> <<>>,
               error |-> [NoError EXCEPT !.threw = TRUE, !.kind = "missingTranslation"] ]
        ELSE [ threw |-> FALSE, kind |-> "none",
               blocks |-> [i \in 1..Len(segments) |->
                   [ sequence |-> i,
                     startTime |-> segments[i].startTime,
                     endTime |-> segments[i].endTime,
                     text |-> MapGet(entries, segments[i].sequence) ]],
               error |-> NoError ]

\* reconstructSRT (lib.ts lines 116-147).  The returned text is the blocks
\* "sequence \n start --> end \n text \n" joined; a block is kept here as the
\* record of its three parts (no translated text holds a blank line, so the
\* blocks of the text are these).  It throws at the first segment without a
\* translation.
ReconstructSRT(segments, entries) ==
    LET missing == {i \in 1..Len(segments) : MapGet(entries, segments[i].sequence) = ""}
        first == CHOOSE i \in missing : \A j \in missing : i <= j
    IN  IF missing # {}
        THEN [ threw |-> TRUE, kind |-> "missingTranslation", blocks |-> <<>>,
               error |-> [NoError EXCEPT !.threw = TRUE, !.kind = "missingTranslation",
                                         !.listed = <<segments[first].sequence>>] ]
        ELSE [ threw |-> FALSE, kind |-> "none",
               blocks |-> [i \in 1..Len(segments) |->
                   [ sequence |-> segments[i].sequence,
                     startTime |-> segments[i].startTime,
                     endTime |-> segments[i].endTime,
                     text |-> MapGet(entries, segments[i].sequence) ]],
               error |-> NoError ]

-----------------------------------------------------------------------------
(* srt.ts, transcript.ts on text.  A JavaScript string is a TLA+ string;    *)
(* the operators below read it character by character.                      *)

CharAt(s, i) == SubSeq(s, i, i)

\* the characters \s matches that occur in the inputs
Whitespace == {" ", "\n", "\t", "\r"}

DecimalDigits == "0123456789"

IsDigit(c) == \E d \in 1..Len(DecimalDigits) : CharAt(DecimalDigits, d) = c

DigitValue(c) == (CHOOSE d \in 1..Len(DecimalDigits) : CharAt(DecimalDigits, d) = c) - 1

\* the first position from i on that holds no whitespace (Len(s) + 1 when
\* there is none), and the last position up to i that holds none (0)
RECURSIVE SkipSpaces(_, _)
SkipSpaces(s, i) ==
    IF i > Len(s) \/ CharAt(s, i) \notin Whitespace THEN i ELSE SkipSpaces(s, i + 1)

RECURSIVE SkipSpacesBack(_, _)
SkipSpacesBack(s, i) ==
    IF i < 1 \/ CharAt(s, i) \notin Whitespace THEN i ELSE SkipSpacesBack(s, i - 1)

\* String.prototype.trim
Trim(s) ==
    LET first == SkipSpaces(s, 1)
    IN  IF first > Len(s) THEN "" ELSE SubSeq(s, first, SkipSpacesBack(s, Len(s)))

\* String.prototype.split("\n")
SplitLines(s) ==
    LET cuts == SelectSeq([i \in 1..Len(s) |-> i], LAMBDA i : CharAt(s, i) = "\n")
    IN  [k \in 1..(Len(cuts) + 1) |->
            SubSeq(s, IF k = 1 THEN 1 ELSE cuts[k - 1] + 1,
                      IF k = Len(cuts) + 1 THEN Len(s) ELSE cuts[k] - 1)]

\* Array.prototype.join(separator)
RECURSIVE JoinFrom(_, _, _)
JoinFrom(parts, separator, i) ==
    IF i > Len(parts) THEN ""
    ELSE IF i = Len(parts) THEN parts[i]
    ELSE parts[i] \o separator \o JoinFrom(parts, separator, i + 1)

Join(parts, separator) == JoinFrom(parts, separator, 1)

\* the greedy \s*\n of /\n\s*\n/ tried from position p: the position of the
\* last "\n" in the run of whitespace that starts at p (0 when the run holds
\* no "\n")
RECURSIVE LastNewlineInRun(_, _, _)
LastNewlineInRun(s, p, last) ==
    IF p > Len(s) \/ CharAt(s, p) \notin Whitespace THEN last
    ELSE LastNewlineInRun(s, p + 1, IF CharAt(s, p) = "\n" THEN p ELSE last)

\* String.prototype.split(/\n\s*\n/): the pieces between the leftmost,
\* non-overlapping matches, the current piece begun at start and the next
\* match sought from p on
RECURSIVE SplitBlocksFrom(_, _, _, _)
SplitBlocksFrom(s, start, p, pieces) ==
    LET openings == SelectSeq([i \in 1..Len(s) |-> i],
                              LAMBDA i : /\ i >= p
                                         /\ CharAt(s, i) = "\n"
                                         /\ LastNewlineInRun(s, i + 1, 0) # 0)
    IN  IF openings = <<>> THEN Append(pieces, SubSeq(s, start, Len(s)))
        ELSE LET closing == LastNewlineInRun(s, openings[1] + 1, 0)
             IN  SplitBlocksFrom(s, closing + 1, closing + 1,
                                 Append(pieces, SubSeq(s, start, openings[1] - 1)))

\* srtContent.split(/\n\s*\n/).filter((block) => block.trim().length > 0)
SplitBlocks(s) ==
    SelectSeq(SplitBlocksFrom(s, 1, 1, <<>>), LAMBDA block : Len(Trim(block)) > 0)

\* the value of the run of digits of s that starts at position i, and the
\* position after it
RECURSIVE ReadDigits(_, _, _)
ReadDigits(s, i, value) ==
    IF i > Len(s) \/ ~IsDigit(CharAt(s, i)) THEN [next |-> i, value |-> value]
    ELSE ReadDigits(s, i + 1, 10 * value + DigitValue(CharAt(s, i)))

\* parseInt(s, 10): leading whitespace skipped, an optional sign, then the
\* longest run of digits; NaN when there is no digit there
ParseInt(s) ==
    LET first == SkipSpaces(s, 1)
        signed == first <= Len(s) /\ CharAt(s, first) \in {"+", "-"}
        from == IF signed THEN first + 1 ELSE first
        digits == ReadDigits(s, from, 0)
    IN  IF digits.next = from THEN [isNaN |-> TRUE, value |-> 0]
        ELSE [ isNaN |-> FALSE,
               value |-> IF signed /\ CharAt(s, first) = "-"
                         THEN 0 - digits.value ELSE digits.value ]

\* Number.prototype.toString() of an integer
RECURSIVE NaturalToString(_)
NaturalToString(n) ==
    IF n < 10 THEN CharAt(DecimalDigits, n + 1)
    ELSE NaturalToString(n \div 10) \o CharAt(DecimalDigits, (n % 10) + 1)

IntToString(n) == IF n < 0 THEN "-" \o NaturalToString(0 - n) ELSE NaturalToString(n)

\* t matches \d{2}:\d{2}:\d{2},\d{3}
IsTimestampText(t) ==
    /\ Len(t) = 12
    /\ \A i \in {1, 2, 4, 5, 7, 8, 10, 11, 12} : IsDigit(CharAt(t, i))
    /\ CharAt(t, 3) = ":"
    /\ CharAt(t, 6) = ":"
    /\ CharAt(t, 9) = ","

\* secondLine.match(/^(\d{2}:\d{2}:\d{2},\d{3})\s*-->\s*(\d{2}:\d{2}:\d{2},\d{3})$/):
\* the two captures, or <<>> for null
TimeMatch(line) ==
    LET n == Len(line)
        arrow == IF n >= 27 THEN SubSeq(line, 13, n - 12) ELSE ""
    IN  IF /\ n >= 27
           /\ IsTimestampText(SubSeq(line, 1, 12))
           /\ IsTimestampText(SubSeq(line, n - 11, n))
           /\ Trim(arrow) = "-->"
        THEN <<SubSeq(line, 1, 12), SubSeq(line, n - 11, n)>>
        ELSE <<>>

\* parseSRTBlock with a block of two lines accepted (lines.length < 2)
ParseSRTBlockTwoLines(block) ==
    LET lines == SplitLines(Trim(block))
        sequence == ParseInt(Trim(lines[1]))
        timeMatch == TimeMatch(lines[2])
    IN  IF Len(lines) < 2 THEN <<>>
        ELSE IF Len(lines[1]) = 0 \/ Len(lines[2]) = 0 THEN <<>>
        ELSE IF sequence.isNaN THEN <<>>
        ELSE IF timeMatch = <<>> THEN <<>>
        ELSE << [ sequence |-> sequence.value,
                  startTime |-> timeMatch[1],
                  endTime |-> timeMatch[2],
                  text |-> Trim(Join(SubSeq(lines, 3, Len(lines)), "\n")) ] >>

\* the body of the loop of parseSRTContent (lib.ts lines 24-48) for one
\* block: the segment pushed, or nothing
ParseSRTBlock(block) ==
    LET lines == SplitLines(Trim(block))
        sequence == ParseInt(Trim(lines[1]))
        timeMatch == TimeMatch(lines[2])
    IN  IF Len(lines) < 3 THEN <<>>
        ELSE IF Len(lines[1]) = 0 \/ Len(lines[2]) = 0 THEN <<>>
        ELSE IF sequence.isNaN THEN <<>>
        ELSE IF timeMatch = <<>> THEN <<>>
        ELSE << [ sequence |-> sequence.value,
                  startTime |-> timeMatch[1],
                  endTime |-> timeMatch[2],
                  text |-> Trim(Join(SubSeq(lines, 3, Len(lines)), "\n")) ] >>

\* parseSRTContent (lib.ts lines 18-51)
ParseSRTContent(srtContent) ==
    LET blocks == SplitBlocks(srtContent)
    IN  Flatten([i \in 1..Len(blocks) |-> ParseSRTBlock(blocks[i])])

\* countSRTSegments (lib.ts lines 453-455)
CountSRTSegments(srtContent) == Len(ParseSRTContent(srtContent))

\* the text reconstructSRT returns for its blocks, with the blocks run
\* together (joined with nothing between them)
SRTTextRunTogether(blocks) ==
    Trim(Join([i \in 1..Len(blocks) |->
                  Join(<< IntToString(blocks[i].sequence),
                          blocks[i].startTime \o " --> " \o blocks[i].endTime,
                          blocks[i].text,
                          "" >>, "\n")], ""))

\* the text reconstructSRT returns for its blocks (lib.ts lines 136-146)
SRTText(blocks) ==
    Trim(Join([i \in 1..Len(blocks) |->
                  Join(<< IntToString(blocks[i].sequence),
                          blocks[i].startTime \o " --> " \o blocks[i].endTime,
                          blocks[i].text,
                          "" >>, "\n")], "\n"))

\* createSRTLikeFormat with the blocks joined by a single newline
CreateSRTLikeFormatOneNewline(segments) ==
    Join([i \in 1..Len(segments) |->
             IntToString(segments[i].sequence) \o "\n" \o segments[i].text], "\n")

\* createSRTLikeFormat (lib.ts lines 82-86)
CreateSRTLikeFormat(segments) ==
    Join([i \in 1..Len(segments) |->
             IntToString(segments[i].sequence) \o "\n" \o segments[i].text], "\n\n")

\* the body of the loop of parseSRTLikeFormat (lib.ts lines 94-110)
ParseSRTLikeBlock(block) ==
    LET lines == SplitLines(Trim(block))
        sequence == ParseInt(Trim(lines[1]))
        text == Trim(Join(SubSeq(lines, 2, Len(lines)), "\n"))
    IN  IF Len(lines) < 2 THEN <<>>
        ELSE IF Len(lines[1]) = 0 THEN <<>>
        ELSE IF sequence.isNaN THEN <<>>
        ELSE IF text = "" THEN <<>>
        ELSE << [number |-> sequence.value, text |-> text] >>

\* parseSRTLikeFormat (lib.ts lines 88-114)
ParseSRTLikeFormat(srtLikeText) ==
    LET blocks == SplitBlocks(srtLikeText)
    IN  Flatten([i \in 1..Len(blocks) |-> ParseSRTLikeBlock(blocks[i])])

\* line.match(/^(\d+):\s*(.+)$/): the captures <<digits, rest>>, or <<>> for
\* null.  The greedy \s* leaves (.+) at least one character, and "." matches
\* no line terminator.
EntryLineMatch(line) ==
    LET digits == ReadDigits(line, 1, 0)
        colon == digits.next
        rest == SubSeq(line, colon + 1, Len(line))
        spaces == SkipSpaces(rest, 1) - 1
        skipped == IF spaces = Len(rest) THEN Len(rest) - 1 ELSE spaces
        captured == SubSeq(rest, skipped + 1, Len(rest))
    IN  IF /\ colon > 1
           /\ colon <= Len(line)
           /\ CharAt(line, colon) = ":"
           /\ Len(rest) >= 1
           /\ \A i \in 1..Len(captured) : CharAt(captured, i) \notin {"\n", "\r"}
        THEN <<SubSeq(line, 1, colon - 1), captured>>
        ELSE <<>>

\* the entry parseTranslatedTranscript pushes for one line, or nothing
\* (lines 69-76)
ParseEntryLine(line) ==
    LET match == EntryLineMatch(line)
    IN  IF match = <<>> THEN <<>>
        ELSE IF match[2] = "" THEN <<>>
        ELSE IF Trim(match[2]) = "" THEN <<>>
        ELSE << [number |-> ParseInt(match[1]).value, text |-> Trim(match[2])] >>

\* a parser that appends a line that starts no entry to the text of the
\* entry before it
RECURSIVE AppendingParse(_, _, _)
AppendingParse(lines, i, entries) ==
    IF i > Len(lines) THEN entries
    ELSE LET entry == ParseEntryLine(lines[i])
         IN  IF entry # <<>> THEN AppendingParse(lines, i + 1, entries \o entry)
             ELSE IF entries = <<>> THEN AppendingParse(lines, i + 1, entries)
             ELSE AppendingParse(lines, i + 1,
                      [entries EXCEPT ![Len(entries)].text = @ \o "\n" \o lines[i]])

ParseTranslatedTranscriptAppending(translatedText) ==
    AppendingParse(SelectSeq(SplitLines(translatedText),
                             LAMBDA line : Len(Trim(line)) > 0), 1, <<>>)

\* parseTranslatedTranscript (lib.ts lines 60-80)
ParseTranslatedTranscript(translatedText) ==
    LET lines == SelectSeq(SplitLines(translatedText),
                           LAMBDA line : Len(Trim(line)) > 0)
    IN  Flatten([i \in 1..Len(lines) |-> ParseEntryLine(lines[i])])

-----------------------------------------------------------------------------
(* translation.ts *)

\* translateChunk: const maxRetries = 3
MaxRetries == 3
\* translateChunk: setTimeout(resolve, 1000 * attempt)
BackoffUnitMs == 1000
\* translateTranscript: createIntelligentChunks(segments, 25, 3)
DefaultMaxChunkSize == 25
DefaultContextSize == 3

\* Rehydrate with entry i timed from 5 i seconds for one second, so that
\* every gap between neighbours is 4 seconds
RehydrateSpaced(transcript) ==
    [i \in 1..Len(transcript) |->
        [ sequence |-> transcript[i].number,
          startTime |-> FormatTimestamp(5000 * i),
          endTime |-> FormatTimestamp(5000 * i + 1000),
          text |-> transcript[i].text ]]

\* translateTranscript lines 277-282: entries back to segments, dummy timing
Rehydrate(transcript) ==
    [i \in 1..Len(transcript) |->
        [ sequence |-> transcript[i].number,
          startTime |-> FormatTimestamp(0),
          endTime |-> FormatTimestamp(0),
          text |-> transcript[i].text ]]

Reverse(s) == [i \in 1..Len(s) |-> s[Len(s) + 1 - i]]

\* The number lists a backend reply can parse to (parseSRTLikeFormat of the
\* trimmed response text) for a chunk: the requested numbers in order or
\* reversed, one dropped, one added, one renumbered, one repeated.
ReplyNumbers(chunk) ==
    LET ns == SequencesOf(chunk.translateSegments)
        m == Len(ns)
        spare == 1 + (IF m = 0 THEN 0 ELSE CHOOSE x \in Range(ns) : \A y \in Range(ns) : y <= x)
    IN  { ns, Reverse(ns), Append(ns, spare) }
        \cup (IF m = 0 THEN {}
              ELSE { SubSeq(ns, 1, m - 1),
                     [ns EXCEPT ![m] = spare],
                     [ns EXCEPT ![m] = ns[1]] })

\* What model.models.generateContent can do: resolve with a text (kept as
\* the entries parseSRTLikeFormat reads from it, whose texts are never
\* empty), or reject with an Error whose message holds the given markers.
BackendMessages == { {}, {"Expected"} }

BackendReplies(chunk) ==
    { [ failed |-> FALSE, markers |-> {},
        entries |-> [i \in 1..Len(ns) |-> [number |-> ns[i], text |-> "translated"]] ]
      : ns \in ReplyNumbers(chunk) }
    \cup { [failed |-> TRUE, markers |-> m, entries |-> <<>>] : m \in BackendMessages }

\* translateChunkAttempt (lines 145-250): the Error it throws, or NoError when
\* it returns the reply's entries.  A backend failure is rethrown as it is
\* (line 201); a validateChunk failure is rethrown as
\* "Chunk validation failed: <message>" (line 242).
TranslateChunkAttempt(chunk, reply) ==
    IF reply.failed
    THEN [NoError EXCEPT !.threw = TRUE, !.kind = "backend", !.markers = reply.markers]
    ELSE LET error == ValidateChunk(chunk, reply.entries)
         IN  IF error.threw
             THEN [error EXCEPT !.markers = @ \cup {"validation failed"}]
             ELSE NoError

\* translateChunk lines 42-45
IsValidationError(error) == error.markers \cap RetryMarkers # {}

\* ShouldRetry with the last retry lost (attempt < maxRetries - 1)
ShouldRetryOffByOne(error, attempt) ==
    IsValidationError(error) /\ attempt < MaxRetries - 1

\* translateChunk line 47
ShouldRetry(error, attempt) ==
    IsValidationError(error) /\ attempt < MaxRetries

\* what the outcome of an attempt is recorded as
OutcomeOf(error) ==
    IF ~error.threw THEN "pass"
    ELSE IF error.kind = "backend" THEN "backend"
    ELSE "invalid"

\* the argument of one onProgress call.  Math.round((completed / total) * 100)
\* is NaN when total is 0 (then isNaN is set and percentage left 0); for the
\* totals of this model the double arithmetic gives the exact rounding.
ProgressEvent(completed, total) ==
    [ completed |-> completed, total |-> total,
      percentage |-> IF total = 0 THEN 0 ELSE (200 * completed + total) \div (2 * total),
      isNaN |-> (total = 0) ]

\* updateProgress with `=` in place of `+=` on completedSegments
UpdateProgressNoSum(has, lock, completed, total, events, segmentCount) ==
    IF ~has \/ lock
    THEN [completedSegments |-> completed, progressEvents |-> events]
    ELSE [ completedSegments |-> segmentCount,
           progressEvents |-> Append(events, ProgressEvent(segmentCount, total)) ]

\* updateProgress with the guard read the wrong way round: the update is
\* made only when progressLock is set
UpdateProgressLockInverted(has, lock, completed, total, events, segmentCount) ==
    IF ~has \/ ~lock
    THEN [completedSegments |-> completed, progressEvents |-> events]
    ELSE [ completedSegments |-> completed + segmentCount,
           progressEvents |-> Append(events,
               ProgressEvent(completed + segmentCount, total)) ]

\* updateProgress (lines 300-312): the counter and the calls of onProgress
\* after it ran; progressLock is set and cleared inside the call
UpdateProgress(has, lock, completed, total, events, segmentCount) ==
    IF ~has \/ lock
    THEN [completedSegments |-> completed, progressEvents |-> events]
    ELSE [ completedSegments |-> completed + segmentCount,
           progressEvents |-> Append(events,
               ProgressEvent(completed + segmentCount, total)) ]

\* chunkResults.sort((a, b) => a.index - b.index): stable, as SortNumbers
RECURSIVE InsertByIndex(_, _)
InsertByIndex(sorted, r) ==
    IF sorted = <<>> \/ sorted[Len(sorted)].index <= r.index THEN Append(sorted, r)
    ELSE Append(InsertByIndex(SubSeq(sorted, 1, Len(sorted) - 1), r),
                sorted[Len(sorted)])

RECURSIVE SortByIndexFrom(_, _, _)
SortByIndexFrom(results, i, sorted) ==
    IF i > Len(results) THEN sorted
    ELSE SortByIndexFrom(results, i + 1, InsertByIndex(sorted, results[i]))

SortByIndex(results) == SortByIndexFrom(results, 1, <<>>)

RECURSIVE MergeByNumber(_, _, _, _, _)
MergeByNumber(a, i, b, j, merged) ==
    IF i > Len(a) THEN merged \o SubSeq(b, j, Len(b))
    ELSE IF j > Len(b) THEN merged \o SubSeq(a, i, Len(a))
    ELSE IF a[i].number <= b[j].number
         THEN MergeByNumber(a, i + 1, b, j, Append(merged, a[i]))
    ELSE MergeByNumber(a, i, b, j + 1, Append(merged, b[j]))

\* allTranslatedEntries.sort left out
SortByNumberSkipped(entries) == entries

\* allTranslatedEntries.sort((a, b) => a.number - b.number), as a stable
\* merge sort
RECURSIVE SortByNumber(_)
SortByNumber(entries) ==
    IF Len(entries) <= 1 THEN entries
    ELSE LET half == Len(entries) \div 2
         IN  MergeByNumber(SortByNumber(SubSeq(entries, 1, half)), 1,
                           SortByNumber(SubSeq(entries, half + 1, Len(entries))), 1,
                           <<>>)

-----------------------------------------------------------------------------
(* SpecValidate: validateChunk on bounded inputs *)

\* a segment with the given sequence number (timing and text play no part)
SegmentNumbered(n) ==
    [ sequence |-> n, startTime |-> FormatTimestamp(0),
      endTime |-> FormatTimestamp(0), text |-> "text" ]

\* all sequences over S of length at most n
SeqsUpTo(S, n) == UNION {[1..k -> S] : k \in 0..n}

ValidateIdle ==
    /\ vChunk = <<>>
    /\ vEntries = <<>>
    /\ vResult = <<>>

RunIdle ==
    /\ originalSegments = <<>>
    /\ onProgress = FALSE
    /\ chunks = <<>>
    /\ tasks = <<>>
    /\ arrival = <<>>
    /\ completedSegments = 0
    /\ progressLock = FALSE
    /\ progressEvents = <<>>
    /\ pc = "idle"
    /\ translateError = NoError
    /\ translatedEntries = <<>>
    /\ output = NoOutput

TextIdle ==
    /\ tKind = "idle"
    /\ tParts = <<>>
    /\ tText = ""
    /\ tSegments = <<>>
    /\ tEntries = <<>>
    /\ tCall = "none"
    /\ tResult = <<>>

AttemptIdle ==
    /\ aChunk = <<>>
    /\ aReply = <<>>
    /\ aLogFails = <<>>
    /\ aPc = "idle"
    /\ aLogged = <<>>
    /\ aError = NoError
    /\ aResult = <<>>

ProgressIdle ==
    /\ pTotalSegments = 0
    /\ pOnProgress = FALSE
    /\ pChunkSizes = <<>>
    /\ pResolved = {}
    /\ pCompletedSegments = 0
    /\ pProgressLock = FALSE
    /\ pCalls = 0
    /\ pLastEvent = <<>>
    /\ pPc = "idle"

ChunkIdle ==
    /\ cSegments = <<>>
    /\ maxChunkSize = 0
    /\ contextSize = 0
    /\ naturalBreaks = <<>>
    /\ currentIndex = 0
    /\ chunkIndex = 0
    /\ cChunks = <<>>
    /\ cPc = "idle"

ValidateInit ==
    /\ \E translate \in SeqsUpTo(1..MaxValNum, MaxValLen),
          context \in SeqsUpTo({MaxValNum + 1}, 1),
          total \in 1..2 :
          LET translateSegments ==
                  [i \in 1..Len(translate) |-> SegmentNumbered(translate[i])]
              contextSegments ==
                  [i \in 1..Len(context) |-> SegmentNumbered(context[i])]
          IN  vChunk = [ segments |-> Concat(contextSegments, translateSegments),
                         contextSegments |-> contextSegments,
                         translateSegments |-> translateSegments,
                         chunkIndex |-> total - 1,
                         totalChunks |-> total ]
    /\ \E numbers \in SeqsUpTo(1..(MaxValNum + 1), MaxValLen + 1) :
          vEntries = [i \in 1..Len(numbers) |->
                         [number |-> numbers[i], text |-> "translated"]]
    /\ vResult = <<>>
    /\ ChunkIdle
    /\ RunIdle
    /\ TextIdle
    /\ AttemptIdle
    /\ ProgressIdle

\* the call validateChunk(vChunk, vEntries) and, for the same two lists, the
\* call validateTranslation(vChunk.translateSegments, vEntries)
ValidateCall ==
    /\ vResult = <<>>
    /\ vResult' = << ValidateChunk(vChunk, vEntries),
                     ValidateTranslation(vChunk.translateSegments, vEntries) >>
    /\ UNCHANGED <<vChunk, vEntries>>
    /\ UNCHANGED <<chunkVars, runVars, textVars, attemptVars, progressVars>>

ValidateNext == ValidateCall

SpecValidate == ValidateInit /\ [][ValidateNext]_vars

ValidateCalled == vResult # <<>>

\* C3: validateChunk throws exactly when the returned numbers differ from the
\* sequence numbers of chunk.translateSegments in count or in membership; the
\* context segments of the chunk do not enter the condition.
C3_ValidateChunkIff ==
    ValidateCalled =>
        ( vResult[1].threw <=>
            \/ Len(vEntries) # Len(vChunk.translateSegments)
            \/ Range(NumbersOf(vEntries)) # Range(SequencesOf(vChunk.translateSegments)) )

\* C3 witness: a silent return for a chunk that has a context segment and
\* whose entries come back in another order than the chunk's segments.
C3_Witness ==
    /\ ValidateCalled
    /\ ~vResult[1].threw
    /\ vChunk.contextSegments # <<>>
    /\ Len(vEntries) = 2
    /\ NumbersOf(vEntries) # SequencesOf(vChunk.translateSegments)

-----------------------------------------------------------------------------
(* SpecChunk: createIntelligentChunks step by step *)

\* gaps between consecutive segments tried in the inputs: at the natural-break
\* threshold (no break) and just above it (a break)
GapChoices == {NaturalBreakGapMs, NaturalBreakGapMs + 1}

\* start time of segment k when the gaps before it are gaps[1..k-1]; every
\* input segment lasts one second
RECURSIVE StartMs(_, _)
StartMs(gaps, k) ==
    IF k = 1 THEN 0 ELSE StartMs(gaps, k - 1) + 1000 + gaps[k - 1]

\* a well-formed segment list of n segments, numbered 1..n, with the gaps
TimedSegments(n, gaps) ==
    [k \in 1..n |->
        [ sequence |-> k,
          startTime |-> FormatTimestamp(StartMs(gaps, k)),
          endTime |-> FormatTimestamp(StartMs(gaps, k) + 1000),
          text |-> "text" ]]

ChunkInit ==
    /\ \E n \in 0..MaxSegs :
         \E gaps \in [1..(IF n = 0 THEN 0 ELSE n - 1) -> GapChoices] :
            cSegments = TimedSegments(n, gaps)
    /\ maxChunkSize \in 0..MaxChunkArg
    /\ contextSize \in 0..MaxContextArg
    /\ naturalBreaks = <<>>
    /\ currentIndex = 0
    /\ chunkIndex = 0
    /\ cChunks = <<>>
    /\ cPc = "start"
    /\ ValidateIdle
    /\ RunIdle
    /\ TextIdle
    /\ AttemptIdle
    /\ ProgressIdle

\* lines 39-56: the early return, or the set-up of the loop
ChunkEnter ==
    /\ cPc = "start"
    /\ IF Len(cSegments) <= maxChunkSize
       THEN /\ cChunks' = SingleChunk(cSegments)
            /\ cPc' = "done"
            /\ UNCHANGED naturalBreaks
       ELSE /\ naturalBreaks' = DetectNaturalBreaks(cSegments)
            /\ cPc' = "loop"
            /\ UNCHANGED cChunks
    /\ UNCHANGED <<cSegments, maxChunkSize, contextSize, currentIndex, chunkIndex>>
    /\ UNCHANGED <<validateVars, runVars, textVars, attemptVars, progressVars>>

\* lines 58-98: one iteration of the while loop
ChunkIterate ==
    /\ cPc = "loop"
    /\ currentIndex < Len(cSegments)
    /\ Len(cChunks) < MaxIterations
    /\ LET size == ChunkSizeAt(cSegments, maxChunkSize, naturalBreaks, currentIndex)
       IN  /\ cChunks' = Append(cChunks,
                   BuildChunk(cSegments, contextSize, currentIndex, size, chunkIndex))
           /\ currentIndex' = currentIndex + size
    /\ chunkIndex' = chunkIndex + 1
    /\ UNCHANGED <<cSegments, maxChunkSize, contextSize, naturalBreaks, cPc>>
    /\ UNCHANGED <<validateVars, runVars, textVars, attemptVars, progressVars>>

\* lines 100-103: the loop condition fails, totals are stamped, return
ChunkReturn ==
    /\ cPc = "loop"
    /\ ~(currentIndex < Len(cSegments))
    /\ cChunks' = StampTotalChunks(cChunks)
    /\ cPc' = "done"
    /\ UNCHANGED <<cSegments, maxChunkSize, contextSize, naturalBreaks,
                   currentIndex, chunkIndex>>
    /\ UNCHANGED <<validateVars, runVars, textVars, attemptVars, progressVars>>

ChunkNext == ChunkEnter \/ ChunkIterate \/ ChunkReturn

SpecChunk == ChunkInit /\ [][ChunkNext]_vars

\* the flattened translateSegments of the chunks built so far
TranslatedSoFar == Flatten([i \in 1..Len(cChunks) |-> cChunks[i].translateSegments])

\* C1: when createIntelligentChunks returns, the translateSegments of its
\* chunks, concatenated in chunk order, are the input list exactly, and no
\* chunk has more than maxChunkSize translateSegments.
C1_ChunkCoverage ==
    cPc = "done" =>
        /\ TranslatedSoFar = cSegments
        /\ \A i \in 1..Len(cChunks) :
              Len(cChunks[i].translateSegments) <= maxChunkSize

\* C1 witness: a return with several chunks, one of them cut short at a
\* natural break.
C1_Witness ==
    /\ cPc = "done"
    /\ Len(cChunks) >= 3
    /\ \E i \in 1..(Len(cChunks) - 1) :
          Len(cChunks[i].translateSegments) < maxChunkSize

\* C10: in the returned chunks the first chunk has no contextSegments, and
\* every later chunk's contextSegments are the min(contextSize, p) input
\* segments immediately preceding its first translate segment (p its 0-based
\* position), none of which is among that chunk's translateSegments.
C10_ContextPrecedes ==
    cPc = "done" =>
        /\ cChunks[1].contextSegments = <<>>
        /\ \A i \in 2..Len(cChunks) :
              LET chunk == cChunks[i]
                  first == chunk.translateSegments[1].sequence
                  count == Len(chunk.contextSegments)
              IN  /\ chunk.translateSegments # <<>>
                  /\ count = Min(contextSize, first - 1)
                  /\ count <= contextSize
                  /\ chunk.contextSegments = SubSeq(cSegments, first - count, first - 1)
                  /\ Range(chunk.contextSegments) \cap Range(chunk.translateSegments) = {}

\* C10 witness: a return where one later chunk has fewer preceding segments
\* than contextSize and another has a full context window.
C10_Witness ==
    /\ cPc = "done"
    /\ \E i, j \in 2..Len(cChunks) :
          /\ Len(cChunks[i].contextSegments) \in 1..(contextSize - 1)
          /\ Len(cChunks[j].contextSegments) = contextSize

-----------------------------------------------------------------------------
(* Spec: one run of translateSRTContent.                                    *)
(*                                                                          *)
(* pc: "start"      translateSRTContent entered, input parsed               *)
(*     "awaitAll"   translateTranscript waits at Promise.all(chunkPromises) *)
(*     "rejected"   Promise.all rejected: translateTranscript and, with it, *)
(*                  translateSRTContent rejected with translateError        *)
(*     "translated" translateTranscript returned translatedEntries          *)
(*     "returned"   translateSRTContent returned the reconstructed file     *)
(*     "threw"      translateSRTContent threw after the translation         *)
(* A task's phase: "calling" (generateContent outstanding), "backoff" (the  *)
(* retry timer runs), "resolved", "rejected".  The awaits on the request    *)
(* logger, which catches its own failures, are folded into the step they    *)
(* precede.                                                                 *)

\* the sequence numbers of the input file: 1..n, n..1, 5, 10, .. 5n, or
\* 1..n with the last number repeating the first
NumberingShapes == {"ascending", "descending", "gapped", "repeated"}

SequenceNumber(shape, n, i) ==
    CASE shape = "ascending" -> i
      [] shape = "descending" -> n + 1 - i
      [] shape = "gapped" -> 5 * i
      [] shape = "repeated" -> IF i = n /\ n >= 2 THEN 1 ELSE i

\* parseSRTContent of a well-formed file of n blocks: segment i runs from
\* second i to half a second later
FileSegments(shape, n) ==
    [i \in 1..n |->
        [ sequence |-> SequenceNumber(shape, n, i),
          startTime |-> FormatTimestamp(1000 * i),
          endTime |-> FormatTimestamp(1000 * i + 500),
          text |-> "text" ]]

NewTask ==
    [ phase |-> "calling", attempt |-> 1, outcomes |-> <<>>, waits |-> <<>>,
      entries |-> <<>>, error |-> NoError ]

Init ==
    /\ \E n \in 0..MaxFileSegments, shape \in NumberingShapes :
          originalSegments = FileSegments(shape, n)
    /\ onProgress \in BOOLEAN
    /\ chunks = <<>>
    /\ tasks = <<>>
    /\ arrival = <<>>
    /\ completedSegments = 0
    /\ progressLock = FALSE
    /\ progressEvents = <<>>
    /\ pc = "start"
    /\ translateError = NoError
    /\ translatedEntries = <<>>
    /\ output = NoOutput
    /\ ChunkIdle
    /\ ValidateIdle
    /\ TextIdle
    /\ AttemptIdle
    /\ ProgressIdle

TotalSegments == Len(originalSegments)

\* StartTranslation with the chunks taken one after the other: only the
\* first chunk's task is started
StartTranslationOneAtATime ==
    /\ pc = "start"
    /\ chunks' = CreateIntelligentChunks(
                     Rehydrate(CreateTranscript(originalSegments)),
                     DefaultMaxChunkSize, DefaultContextSize)
    /\ tasks' = [i \in 1..Len(chunks') |->
                    IF i = 1 THEN NewTask ELSE [NewTask EXCEPT !.phase = "queued"]]
    /\ pc' = "awaitAll"
    /\ UNCHANGED <<originalSegments, onProgress, arrival, completedSegments,
                   progressLock, progressEvents, translateError,
                   translatedEntries, output>>
    /\ UNCHANGED <<chunkVars, validateVars, textVars, attemptVars, progressVars>>

\* translateSRTContent lines 74-93 and translateTranscript lines 265-354: the
\* file is chunked and every chunk's task runs up to its first backend call
StartTranslation ==
    /\ pc = "start"
    /\ chunks' = CreateIntelligentChunks(
                     Rehydrate(CreateTranscript(originalSegments)),
                     DefaultMaxChunkSize, DefaultContextSize)
    /\ tasks' = [i \in 1..Len(chunks') |-> NewTask]
    /\ pc' = "awaitAll"
    /\ UNCHANGED <<originalSegments, onProgress, arrival, completedSegments,
                   progressLock, progressEvents, translateError,
                   translatedEntries, output>>
    /\ UNCHANGED <<chunkVars, validateVars, textVars, attemptVars, progressVars>>

\* The backend answers chunk c and the attempt passes validateChunk:
\* translateChunk returns, the chunk's callback runs updateProgress and the
\* chunk promise fulfils (lines 162-250, 29, 325-349).
ChunkSucceeds(c) ==
    /\ tasks[c].phase = "calling"
    /\ \E reply \in BackendReplies(chunks[c]) :
         LET error == TranslateChunkAttempt(chunks[c], reply)
             progress == UpdateProgress(onProgress, progressLock, completedSegments,
                                        TotalSegments, progressEvents, Len(reply.entries))
         IN  /\ ~error.threw
             /\ tasks' = [tasks EXCEPT ![c].phase = "resolved",
                                       ![c].outcomes = Append(@, OutcomeOf(error)),
                                       ![c].entries = reply.entries]
             /\ completedSegments' = progress.completedSegments
             /\ progressEvents' = progress.progressEvents
    /\ progressLock' = FALSE
    /\ arrival' = Append(arrival, c - 1)
    /\ UNCHANGED <<originalSegments, onProgress, chunks, pc, translateError,
                   translatedEntries, output>>
    /\ UNCHANGED <<chunkVars, validateVars, textVars, attemptVars, progressVars>>

\* ChunkRetries with a timer of 1000 ms whatever the attempt
ChunkRetriesConstantDelay(c) ==
    /\ tasks[c].phase = "calling"
    /\ \E reply \in BackendReplies(chunks[c]) :
         LET error == TranslateChunkAttempt(chunks[c], reply)
         IN  /\ error.threw
             /\ ShouldRetry(error, tasks[c].attempt)
             /\ tasks' = [tasks EXCEPT ![c].phase = "backoff",
                                       ![c].outcomes = Append(@, OutcomeOf(error)),
                                       ![c].waits = Append(@, BackoffUnitMs)]
    /\ UNCHANGED <<originalSegments, onProgress, chunks, arrival, completedSegments,
                   progressLock, progressEvents, pc, translateError,
                   translatedEntries, output>>
    /\ UNCHANGED <<chunkVars, validateVars, textVars, attemptVars, progressVars>>

\* The attempt of chunk c throws and translateChunk decides to retry: it
\* starts the timer of 1000 ms * attempt (lines 38-60).
ChunkRetries(c) ==
    /\ tasks[c].phase = "calling"
    /\ \E reply \in BackendReplies(chunks[c]) :
         LET error == TranslateChunkAttempt(chunks[c], reply)
         IN  /\ error.threw
             /\ ShouldRetry(error, tasks[c].attempt)
             /\ tasks' = [tasks EXCEPT ![c].phase = "backoff",
                                       ![c].outcomes = Append(@, OutcomeOf(error)),
                                       ![c].waits = Append(@, BackoffUnitMs * tasks[c].attempt)]
    /\ UNCHANGED <<originalSegments, onProgress, chunks, arrival, completedSegments,
                   progressLock, progressEvents, pc, translateError,
                   translatedEntries, output>>
    /\ UNCHANGED <<chunkVars, validateVars, textVars, attemptVars, progressVars>>

\* ChunkFails with the chunk promises gathered by Promise.allSettled: the
\* failure of a chunk rejects nothing
ChunkFailsSettled(c) ==
    /\ tasks[c].phase = "calling"
    /\ \E reply \in BackendReplies(chunks[c]) :
         LET error == TranslateChunkAttempt(chunks[c], reply)
         IN  /\ error.threw
             /\ ~ShouldRetry(error, tasks[c].attempt)
             /\ tasks' = [tasks EXCEPT ![c].phase = "rejected",
                                       ![c].outcomes = Append(@, OutcomeOf(error)),
                                       ![c].error = error]
    /\ UNCHANGED <<originalSegments, onProgress, chunks, arrival, completedSegments,
                   progressLock, progressEvents, pc, translateError,
                   translatedEntries, output>>
    /\ UNCHANGED <<chunkVars, validateVars, textVars, attemptVars, progressVars>>

\* ChunkFails replaced by a fallback: the failed chunk resolves with the
\* original texts of its segments and the run goes on
ChunkFailsKeepsOriginal(c) ==
    /\ tasks[c].phase = "calling"
    /\ \E reply \in BackendReplies(chunks[c]) :
         LET error == TranslateChunkAttempt(chunks[c], reply)
         IN  /\ error.threw
             /\ ~ShouldRetry(error, tasks[c].attempt)
             /\ tasks' = [tasks EXCEPT ![c].phase = "resolved",
                                       ![c].outcomes = Append(@, OutcomeOf(error)),
                                       ![c].entries =
                                           CreateTranscript(chunks[c].translateSegments)]
    /\ arrival' = Append(arrival, c - 1)
    /\ UNCHANGED <<originalSegments, onProgress, chunks, completedSegments,
                   progressLock, progressEvents, pc, translateError,
                   translatedEntries, output>>
    /\ UNCHANGED <<chunkVars, validateVars, textVars, attemptVars, progressVars>>

\* ChunkFails with every rejection, not only the first, taken as the error
\* of the run
ChunkFailsLastWins(c) ==
    /\ tasks[c].phase = "calling"
    /\ \E reply \in BackendReplies(chunks[c]) :
         LET error == TranslateChunkAttempt(chunks[c], reply)
         IN  /\ error.threw
             /\ ~ShouldRetry(error, tasks[c].attempt)
             /\ tasks' = [tasks EXCEPT ![c].phase = "rejected",
                                       ![c].outcomes = Append(@, OutcomeOf(error)),
                                       ![c].error = error]
             /\ pc' = "rejected"
             /\ translateError' = error
             /\ output' = [ threw |-> TRUE, kind |-> "translate",
                            blocks |-> <<>>, error |-> error ]
    /\ UNCHANGED <<originalSegments, onProgress, chunks, arrival, completedSegments,
                   progressLock, progressEvents, translatedEntries>>
    /\ UNCHANGED <<chunkVars, validateVars, textVars, attemptVars, progressVars>>

\* The attempt of chunk c throws and translateChunk rethrows (lines 63-74):
\* the chunk promise rejects, and Promise.all rejects with the first such
\* error, which translateTranscript and translateSRTContent pass on.
ChunkFails(c) ==
    /\ tasks[c].phase = "calling"
    /\ \E reply \in BackendReplies(chunks[c]) :
         LET error == TranslateChunkAttempt(chunks[c], reply)
         IN  /\ error.threw
             /\ ~ShouldRetry(error, tasks[c].attempt)
             /\ tasks' = [tasks EXCEPT ![c].phase = "rejected",
                                       ![c].outcomes = Append(@, OutcomeOf(error)),
                                       ![c].error = error]
             /\ IF pc = "awaitAll"
                THEN /\ pc' = "rejected"
                     /\ translateError' = error
                     /\ output' = [ threw |-> TRUE, kind |-> "translate",
                                    blocks |-> <<>>, error |-> error ]
                ELSE UNCHANGED <<pc, translateError, output>>
    /\ UNCHANGED <<originalSegments, onProgress, chunks, arrival, completedSegments,
                   progressLock, progressEvents, translatedEntries>>
    /\ UNCHANGED <<chunkVars, validateVars, textVars, attemptVars, progressVars>>

\* The retry timer of chunk c fires: `continue`, the loop test, attempt++ and
\* the next backend call (lines 59-60, 26-29).  The throw after the loop
\* (line 79) is kept for a loop test that fails.
RetryAfterBackoff(c) ==
    /\ tasks[c].phase = "backoff"
    /\ IF tasks[c].attempt < MaxRetries
       THEN tasks' = [tasks EXCEPT ![c].phase = "calling", ![c].attempt = @ + 1]
       ELSE tasks' = [tasks EXCEPT ![c].phase = "rejected",
                          ![c].error = [NoError EXCEPT !.threw = TRUE,
                                                       !.kind = "unexpected"]]
    /\ UNCHANGED <<originalSegments, onProgress, chunks, arrival, completedSegments,
                   progressLock, progressEvents, pc, translateError,
                   translatedEntries, output>>
    /\ UNCHANGED <<chunkVars, validateVars, textVars, attemptVars, progressVars>>

\* Promise.all fulfils with the results in the order of the promises;
\* translateTranscript sorts them by index, flattens, reports 100 %, sorts the
\* entries by number and returns (lines 354-395).
Aggregate ==
    /\ pc = "awaitAll"
    /\ \A c \in 1..Len(tasks) : tasks[c].phase = "resolved"
    /\ LET chunkResults ==
               SortByIndex([i \in 1..Len(tasks) |->
                               [index |-> i - 1, entries |-> tasks[i].entries]])
           allTranslatedEntries ==
               Flatten([i \in 1..Len(chunkResults) |-> chunkResults[i].entries])
       IN  translatedEntries' = SortByNumber(allTranslatedEntries)
    /\ progressEvents' =
          IF onProgress
          THEN Append(progressEvents,
                      [ completed |-> TotalSegments, total |-> TotalSegments,
                        percentage |-> 100, isNaN |-> FALSE ])
          ELSE progressEvents
    /\ pc' = "translated"
    /\ UNCHANGED <<originalSegments, onProgress, chunks, tasks, arrival,
                   completedSegments, progressLock, translateError, output>>
    /\ UNCHANGED <<chunkVars, validateVars, textVars, attemptVars, progressVars>>

\* translateSRTContent lines 95-163: the whole-file validation, then the
\* reconstruction
Finish ==
    /\ pc = "translated"
    /\ LET error == ValidateTranslation(originalSegments, translatedEntries)
           rebuilt == ReconstructSRT(originalSegments, translatedEntries)
       IN  IF error.threw
           THEN /\ output' = [ threw |-> TRUE, kind |-> "validation",
                               blocks |-> <<>>, error |-> error ]
                /\ pc' = "threw"
           ELSE /\ output' = rebuilt
                /\ pc' = IF rebuilt.threw THEN "threw" ELSE "returned"
    /\ UNCHANGED <<originalSegments, onProgress, chunks, tasks, arrival,
                   completedSegments, progressLock, progressEvents,
                   translateError, translatedEntries>>
    /\ UNCHANGED <<chunkVars, validateVars, textVars, attemptVars, progressVars>>

Next ==
    \/ StartTranslation
    \/ \E c \in 1..Len(tasks) : ChunkSucceeds(c)
    \/ \E c \in 1..Len(tasks) : ChunkRetries(c)
    \/ \E c \in 1..Len(tasks) : ChunkFails(c)
    \/ \E c \in 1..Len(tasks) : RetryAfterBackoff(c)
    \/ Aggregate
    \/ Finish

Spec == Init /\ [][Next]_vars

-----------------------------------------------------------------------------
(* Properties of Spec *)

TaskIds == 1..Len(tasks)

\* translateTranscript returned
Translated == pc \in {"translated", "returned", "threw"}

\* chunk c used up its attempts on validation failures
Exhausted(c) ==
    /\ tasks[c].phase = "rejected"
    /\ tasks[c].outcomes = <<"invalid", "invalid", "invalid">>

\* C2: when translateSRTContent returns, its output has one block per parsed
\* segment, in the input's order, each with the segment's own sequence number
\* and start and end timestamps (nothing is renumbered).
C2_OutputKeepsNumbersAndTiming ==
    pc = "returned" =>
        /\ ~output.threw
        /\ Len(output.blocks) = Len(originalSegments)
        /\ \A i \in 1..Len(originalSegments) :
              /\ output.blocks[i].sequence = originalSegments[i].sequence
              /\ output.blocks[i].startTime = originalSegments[i].startTime
              /\ output.blocks[i].endTime = originalSegments[i].endTime

\* C2 witness: a returned file whose blocks are numbered 5, 10, 15, ...
C2_Witness ==
    /\ pc = "returned"
    /\ Len(output.blocks) >= 3
    /\ SubSeq(SequencesOf(originalSegments), 1, 3) = <<5, 10, 15>>

\* C4 (states): no chunk is attempted more than 3 times; a chunk whose
\* attempts 1 and 2 failed validation and whose attempt 3 passed is resolved
\* with its entries and no error, and if translateTranscript is rejected the
\* error is that of another chunk.
C4_RetryStates ==
    \A c \in TaskIds :
        /\ tasks[c].attempt <= 3
        /\ Len(tasks[c].outcomes) <= 3
        /\ tasks[c].outcomes = <<"invalid", "invalid", "pass">> =>
              /\ tasks[c].phase = "resolved"
              /\ tasks[c].error = NoError
              /\ Range(NumbersOf(tasks[c].entries))
                    = Range(SequencesOf(chunks[c].translateSegments))
              /\ Len(tasks[c].entries) = Len(chunks[c].translateSegments)
              /\ pc = "rejected" =>
                    \E d \in TaskIds \ {c} :
                        tasks[d].phase = "rejected" /\ translateError = tasks[d].error
              /\ (\A d \in TaskIds : tasks[d].phase = "resolved") => pc # "rejected"

\* C4 (steps): a validateChunk failure on attempt 1 or 2 starts the retry
\* timer, and the only step out of the timer is the next attempt.
C4_RetrySteps ==
    \A c \in TaskIds :
        /\ ( /\ tasks[c].phase = "calling"
             /\ tasks'[c] # tasks[c]
             /\ tasks[c].attempt < 3
             /\ tasks'[c].outcomes = Append(tasks[c].outcomes, "invalid") )
           => tasks'[c].phase = "backoff"
        /\ ( tasks[c].phase = "backoff" /\ tasks'[c] # tasks[c] )
           => /\ tasks'[c].phase = "calling"
              /\ tasks'[c].attempt = tasks[c].attempt + 1

\* C4: translateChunk makes at most 3 attempts for a chunk, every
\* validateChunk failure on attempt 1 or 2 leads to another attempt, and a
\* chunk that fails validation twice and passes on attempt 3 yields its
\* entries with no error surfaced.
C4_RetryBehaviour == [][C4_RetryStates /\ C4_RetryStates' /\ C4_RetrySteps]_vars

\* C4 witness: a run that returned although a chunk failed validation on
\* attempts 1 and 2.
C4_Witness ==
    /\ pc = "returned"
    /\ \E c \in TaskIds : tasks[c].outcomes = <<"invalid", "invalid", "pass">>

\* C5 as claimed: whenever a chunk has failed validation on all 3 attempts,
\* translateTranscript is rejected with an error naming that chunk ("Chunk
\* i/N") and the caller has no translated entries.
C5_ErrorNamesEveryExhaustedChunk ==
    \A c \in TaskIds :
        Exhausted(c) =>
            /\ pc = "rejected"
            /\ translateError.chunk = <<c, Len(chunks)>>
            /\ translatedEntries = <<>>
            /\ output.blocks = <<>>

\* C5 (states) amended: once a chunk task has failed, translateTranscript is
\* rejected with the error of a failed chunk task, the caller holds no
\* translated entry and no output block, and the error of a chunk that used
\* up its 3 attempts names that chunk's index and the total.
C5_FailFastStates ==
    /\ (\E c \in TaskIds : tasks[c].phase = "rejected") =>
          /\ pc = "rejected"
          /\ output.threw
          /\ output.error = translateError
          /\ output.blocks = <<>>
          /\ translatedEntries = <<>>
          /\ \E d \in TaskIds :
                tasks[d].phase = "rejected" /\ translateError = tasks[d].error
    /\ \A c \in TaskIds :
          Exhausted(c) => tasks[c].error.chunk = <<c, Len(chunks)>>

\* C5 (steps) amended: the rejection carries the error of the chunk task
\* that failed first, and no later failure replaces it.
C5_FailFastSteps ==
    /\ (pc # "rejected" /\ pc' = "rejected") =>
          \E c \in TaskIds :
              /\ tasks[c].phase = "calling"
              /\ tasks'[c].phase = "rejected"
              /\ translateError' = tasks'[c].error
    /\ pc = "rejected" =>
          /\ pc' = "rejected"
          /\ translateError' = translateError
          /\ output' = output

\* C5 amended: if some chunk fails validation on all 3 attempts,
\* translateTranscript rejects with the error of the chunk task that failed
\* first (an error naming that chunk as "Chunk i/N" when it is the chunk
\* that used up its attempts), and the caller receives no translated entries
\* at all, also for the chunks that succeeded.
C5_FailFast == [][C5_FailFastStates /\ C5_FailFastStates' /\ C5_FailFastSteps]_vars

\* C5 witness: chunk 2 used up its attempts after chunk 1 had succeeded, and
\* the rejection names chunk 2 of 2.
C5_Witness ==
    /\ Len(tasks) = 2
    /\ tasks[1].phase = "resolved"
    /\ Exhausted(2)
    /\ pc = "rejected"
    /\ translateError.chunk = <<2, 2>>

\* C6 as claimed: a failure of the backend call is never retried: it is the
\* last outcome of its chunk, the chunk is rejected by it, and no backoff
\* wait was started for it.
C6_BackendFailureNotRetried ==
    \A c \in TaskIds :
        \A i \in 1..Len(tasks[c].outcomes) :
            tasks[c].outcomes[i] = "backend" =>
                /\ i = Len(tasks[c].outcomes)
                /\ tasks[c].phase = "rejected"
                /\ Len(tasks[c].waits) < i

\* the entries of the resolved chunks, in chunk-index order
AcceptedEntries == Flatten([c \in 1..Len(tasks) |-> tasks[c].entries])

\* C7: the list translateTranscript returns is ascending by number and is the
\* accepted entries of the chunks rearranged (entries of equal number in
\* chunk order): it is fixed by the replies accepted, whatever the order in
\* which the chunks completed.
C7_ResultSortedAndOrderIndependent ==
    Translated =>
        /\ Len(translatedEntries) = Len(AcceptedEntries)
        /\ \A i \in 1..(Len(translatedEntries) - 1) :
              translatedEntries[i].number <= translatedEntries[i + 1].number
        /\ \A n \in Range(NumbersOf(AcceptedEntries)) :
              SelectSeq(translatedEntries, LAMBDA e : e.number = n)
                = SelectSeq(AcceptedEntries, LAMBDA e : e.number = n)

\* C7 witness: the second chunk completed before the first, for a file whose
\* numbers are descending, and translateTranscript returned.
C7_Witness ==
    /\ Translated
    /\ arrival = <<1, 0>>
    /\ originalSegments[1].sequence > originalSegments[2].sequence

\* C8: in the calls of the progress callback, neither completed nor
\* percentage is ever smaller than in the call before (the NaN that an empty
\* transcript produces is smaller than no number and no number is smaller than
\* it), and once translateTranscript has returned the last call has
\* completed = total and percentage = 100.
C8_ProgressMonotonic ==
    /\ \A i \in 1..(Len(progressEvents) - 1) :
          /\ progressEvents[i + 1].completed >= progressEvents[i].completed
          /\ (~progressEvents[i].isNaN /\ ~progressEvents[i + 1].isNaN) =>
                progressEvents[i + 1].percentage >= progressEvents[i].percentage
    /\ (Translated /\ onProgress) =>
          /\ progressEvents # <<>>
          /\ LET last == progressEvents[Len(progressEvents)]
             IN  /\ last.completed = last.total
                 /\ last.total = Len(originalSegments)
                 /\ last.percentage = 100
                 /\ ~last.isNaN

\* C8 witness: two chunks completed in reverse order, three callback calls,
\* the first reporting fewer than half of the segments.
C8_Witness ==
    /\ Translated
    /\ arrival = <<1, 0>>
    /\ Len(progressEvents) = 3
    /\ progressEvents[1].percentage < 50

\* C9: after a successful translateTranscript the whole-file check
\* validateTranslation never throws (whether or not the numbers are unique).
C9_GlobalValidationPasses ==
    pc \in {"returned", "threw"} => output.kind # "validation"

\* C9 witness: a file of unique numbers in two chunks, one of them retried,
\* passed the whole-file check and was returned.
C9_Witness ==
    /\ pc = "returned"
    /\ Len(tasks) = 2
    /\ \E c \in TaskIds : Len(tasks[c].outcomes) > 1
    /\ Cardinality(Range(SequencesOf(originalSegments))) = Len(originalSegments)

-----------------------------------------------------------------------------
(* Further properties of SpecValidate, Spec and SpecChunk *)

IsAscending(numbers) ==
    \A i \in 1..(Len(numbers) - 1) : numbers[i] <= numbers[i + 1]

\* C13 as claimed: every error validateChunk throws prints the expected and
\* the actual numbers, each list in ascending order, whichever of the three
\* checks (count, missing, extra) failed.
C13_ErrorListsSorted ==
    (ValidateCalled /\ vResult[1].threw) =>
        /\ Range(vResult[1].expected) = Range(SequencesOf(vChunk.translateSegments))
        /\ Range(vResult[1].actual) = Range(NumbersOf(vEntries))
        /\ IsAscending(vResult[1].expected)
        /\ IsAscending(vResult[1].actual)

ChunkStart(i) ==
    Len(Flatten([j \in 1..(i - 1) |-> cChunks[j].translateSegments]))

\* b is a natural break of cSegments: segment b (0-based) starts more than
\* 3000 ms after segment b - 1 ends
IsNaturalBreak(b) ==
    /\ b \in 1..(Len(cSegments) - 1)
    /\ ParseTimestamp(cSegments[b + 1].startTime)
         - ParseTimestamp(cSegments[b].endTime) > 3000

\* the natural breaks in the last 30% of the tentative chunk [c, c + s)
LateBreaks(c, s) ==
    {b \in 1..Len(cSegments) : IsNaturalBreak(b) /\ 10 * (b - c) > 7 * s /\ b <= c + s}

\* C20: every chunk built by the loop of createIntelligentChunks (the list
\* is longer than maxChunkSize) starts at the index c where the chunk before
\* ended and, with s = min(maxChunkSize, remaining), ends at the earliest
\* natural break b with c + floor(0.7 s) < b <= c + s when there is one, and
\* has s segments otherwise.
C20_ChunkEndsAtLateBreak ==
    Len(cSegments) > maxChunkSize =>
        \A i \in 1..Len(cChunks) :
            LET c == ChunkStart(i)
                s == Min(maxChunkSize, Len(cSegments) - c)
                late == LateBreaks(c, s)
                size == IF late = {} THEN s
                        ELSE (CHOOSE b \in late : \A other \in late : b <= other) - c
            IN  cChunks[i].translateSegments = SubSeq(cSegments, c + 1, c + size)

\* C20 witness: a returned plan in which one chunk was cut to 3 of its
\* tentative 4 segments by a late break, and another chunk kept all 4 although
\* a natural break lies in its first 70%.
C20_Witness ==
    /\ cPc = "done"
    /\ maxChunkSize = 4
    /\ \E i, j \in 1..Len(cChunks) :
          /\ Len(cSegments) - ChunkStart(i) >= 4
          /\ Len(cChunks[i].translateSegments) = 3
          /\ IsNaturalBreak(ChunkStart(i) + 3)
          /\ Len(cChunks[j].translateSegments) = 4
          /\ \E b \in (ChunkStart(j) + 1)..(ChunkStart(j) + 2) : IsNaturalBreak(b)

-----------------------------------------------------------------------------
(* SpecText: the text functions and the whole-file validator, each applied  *)
(* once to an input drawn from the sets below.                              *)

\* The blocks a subtitle text is made of.  Beside its text a block records
\* what it is: its number of lines, whether parseInt reads an integer from
\* its first line (it reads the leading digits of "6th"), whether its second
\* line is exactly HH:MM:SS,mmm --> HH:MM:SS,mmm (any whitespace around the
\* arrow), and the segment it stands for.
SrtBlockChoices ==
    { [ text |-> "1\n00:00:01,000 --> 00:00:02,000\nHello",
        lines |-> 3, numeric |-> TRUE, timed |-> TRUE, sequence |-> 1,
        startTime |-> "00:00:01,000", endTime |-> "00:00:02,000",
        body |-> "Hello" ],
      [ text |-> " 07 \n00:00:03,000-->00:00:04,500\nline one\n  line two ",
        lines |-> 4, numeric |-> TRUE, timed |-> TRUE, sequence |-> 7,
        startTime |-> "00:00:03,000", endTime |-> "00:00:04,500",
        body |-> "line one\n  line two" ],
      [ text |-> "1\n00:00:11,000 --> 00:00:12,000\nAgain",
        lines |-> 3, numeric |-> TRUE, timed |-> TRUE, sequence |-> 1,
        startTime |-> "00:00:11,000", endTime |-> "00:00:12,000",
        body |-> "Again" ],
      [ text |-> "6th\n00:00:13,000 --> 00:00:14,000\n<i>Six</i>",
        lines |-> 3, numeric |-> TRUE, timed |-> TRUE, sequence |-> 6,
        startTime |-> "00:00:13,000", endTime |-> "00:00:14,000",
        body |-> "<i>Six</i>" ],
      [ text |-> "3\n00:00:05,000 --> 00:00:06,000",
        lines |-> 2, numeric |-> TRUE, timed |-> TRUE, sequence |-> 3,
        startTime |-> "00:00:05,000", endTime |-> "00:00:06,000",
        body |-> "" ],
      [ text |-> "x4\n00:00:07,000 --> 00:00:08,000\nText",
        lines |-> 3, numeric |-> FALSE, timed |-> TRUE, sequence |-> 0,
        startTime |-> "00:00:07,000", endTime |-> "00:00:08,000",
        body |-> "Text" ],
      [ text |-> "5\n00:00:9,000 --> 00:00:10,000\nText",
        lines |-> 3, numeric |-> TRUE, timed |-> FALSE, sequence |-> 5,
        startTime |-> "", endTime |-> "",
        body |-> "Text" ],
      [ text |-> "8\n00:00:15,000 --> 00:00:16,000 \nText",
        lines |-> 3, numeric |-> TRUE, timed |-> FALSE, sequence |-> 8,
        startTime |-> "", endTime |-> "",
        body |-> "Text" ] }

\* what stands between two blocks: one blank line, or a line of blanks
\* followed by an empty line
SrtSeparators == {"\n\n", "\n \t\n\n"}

\* The lines a reply text is made of: the line, whether it starts an entry
\* (digits, a colon, then a text), and the entry's number and text.
ReplyLineChoices ==
    { [text |-> "1: First line", entry |-> TRUE, number |-> 1, body |-> "First line"],
      [text |-> "2:Another entry  ", entry |-> TRUE, number |-> 2, body |-> "Another entry"],
      [text |-> "12:  a: b", entry |-> TRUE, number |-> 12, body |-> "a: b"],
      [text |-> "Second line of same entry", entry |-> FALSE, number |-> 0, body |-> ""],
      [text |-> ": No number", entry |-> FALSE, number |-> 0, body |-> ""],
      [text |-> " 3: indented", entry |-> FALSE, number |-> 0, body |-> ""],
      [text |-> "4:   ", entry |-> FALSE, number |-> 0, body |-> ""],
      [text |-> "", entry |-> FALSE, number |-> 0, body |-> ""] }

\* the texts of the parts with the separators between them
RECURSIVE JoinParts(_, _, _)
JoinParts(parts, separators, i) ==
    IF i > Len(parts) THEN ""
    ELSE IF i = Len(parts) THEN parts[i].text
    ELSE parts[i].text \o separators[i] \o JoinParts(parts, separators, i + 1)

\* the texts an entry can carry: a translation, or nothing
EntryTexts == {"translated", ""}

\* the orders a list of numbers is given in
ListOrders == {"ascending", "descending"}

RECURSIVE AscendingList(_)
AscendingList(numbers) ==
    IF numbers = {} THEN <<>>
    ELSE LET least == CHOOSE n \in numbers : \A m \in numbers : n <= m
         IN  <<least>> \o AscendingList(numbers \ {least})

NumbersInOrder(numbers, order) ==
    IF order = "ascending" THEN AscendingList(numbers)
    ELSE Reverse(AscendingList(numbers))

TextInit ==
    /\ \/ /\ tKind = "srt"
          /\ \E k \in 0..MaxBlocks :
               \E parts \in [1..k -> SrtBlockChoices], separator \in SrtSeparators :
                  /\ tParts = parts
                  /\ tText = JoinParts(parts, [i \in 1..k |-> separator], 1)
          /\ tSegments = <<>>
          /\ tEntries = <<>>
       \/ /\ tKind = "reply"
          /\ \E k \in 0..MaxReplyLines :
               \E parts \in [1..k -> ReplyLineChoices] :
                  /\ tParts = parts
                  /\ tText = JoinParts(parts, [i \in 1..k |-> "\n"], 1)
          /\ tSegments = <<>>
          /\ tEntries = <<>>
       \/ /\ tKind = "lists"
          /\ tParts = <<>>
          /\ tText = ""
          /\ \E numbers \in SeqsUpTo(1..MaxListLen, MaxListLen) :
                tSegments = [i \in 1..Len(numbers) |->
                                [ sequence |-> numbers[i],
                                  startTime |-> "00:00:01,000",
                                  endTime |-> "00:00:02,000",
                                  text |-> "text" ]]
          /\ \E entries \in SeqsUpTo((1..(MaxListLen + 1)) \X EntryTexts, MaxListLen) :
                tEntries = [i \in 1..Len(entries) |->
                               [number |-> entries[i][1], text |-> entries[i][2]]]
       \/ /\ tKind = "analysis"
          /\ tParts = <<>>
          /\ tText = ""
          /\ \E numbers \in SUBSET (1..MaxAnalysisNum), order \in ListOrders :
                tSegments = [i \in 1..Cardinality(numbers) |->
                                [ sequence |-> NumbersInOrder(numbers, order)[i],
                                  startTime |-> "00:00:01,000",
                                  endTime |-> "00:00:02,000",
                                  text |-> "text" ]]
          /\ \E numbers \in SUBSET (1..(MaxAnalysisNum + 1)), order \in ListOrders :
                tEntries = [i \in 1..Cardinality(numbers) |->
                               [ number |-> NumbersInOrder(numbers, order)[i],
                                 text |-> "translated" ]]
    /\ tCall = "none"
    /\ tResult = <<>>
    /\ ChunkIdle
    /\ ValidateIdle
    /\ RunIdle
    /\ AttemptIdle
    /\ ProgressIdle

\* parseSRTContent(tText) and countSRTSegments(tText)
TextParseSRT ==
    /\ tKind = "srt"
    /\ tCall = "none"
    /\ tCall' = "parseSRTContent"
    /\ tResult' = [ segments |-> ParseSRTContent(tText),
                    count |-> CountSRTSegments(tText) ]
    /\ UNCHANGED <<tKind, tParts, tText, tSegments, tEntries>>
    /\ UNCHANGED <<chunkVars, validateVars, runVars, attemptVars, progressVars>>

\* parse, reconstruct with the identity translation, parse again
TextRoundTrip ==
    /\ tKind = "srt"
    /\ tCall = "none"
    /\ tCall' = "roundTrip"
    /\ LET segments == ParseSRTContent(tText)
           rebuilt == ReconstructSRT(segments, CreateTranscript(segments))
           text == IF rebuilt.threw THEN "" ELSE SRTText(rebuilt.blocks)
       IN  tResult' = [ segments |-> segments,
                        threw |-> rebuilt.threw,
                        text |-> text,
                        reparsed |-> ParseSRTContent(text) ]
    /\ UNCHANGED <<tKind, tParts, tText, tSegments, tEntries>>
    /\ UNCHANGED <<chunkVars, validateVars, runVars, attemptVars, progressVars>>

\* parseSRTLikeFormat(createSRTLikeFormat(parseSRTContent(tText)))
TextWireRoundTrip ==
    /\ tKind = "srt"
    /\ tCall = "none"
    /\ tCall' = "wireRoundTrip"
    /\ LET segments == ParseSRTContent(tText)
           wire == CreateSRTLikeFormat(segments)
       IN  tResult' = [ segments |-> segments,
                        wire |-> wire,
                        entries |-> ParseSRTLikeFormat(wire) ]
    /\ UNCHANGED <<tKind, tParts, tText, tSegments, tEntries>>
    /\ UNCHANGED <<chunkVars, validateVars, runVars, attemptVars, progressVars>>

\* parseTranslatedTranscript(tText)
TextParseReply ==
    /\ tKind = "reply"
    /\ tCall = "none"
    /\ tCall' = "parseTranslatedTranscript"
    /\ tResult' = [entries |-> ParseTranslatedTranscript(tText)]
    /\ UNCHANGED <<tKind, tParts, tText, tSegments, tEntries>>
    /\ UNCHANGED <<chunkVars, validateVars, runVars, attemptVars, progressVars>>

\* validateTranslation(tSegments, tEntries) and reconstructSRT(tSegments,
\* tEntries), each called on its own
TextValidateAndReconstruct ==
    /\ tKind = "lists"
    /\ tCall = "none"
    /\ tCall' = "validateAndReconstruct"
    /\ tResult' = [ validation |-> ValidateTranslation(tSegments, tEntries),
                    rebuilt |-> ReconstructSRT(tSegments, tEntries) ]
    /\ UNCHANGED <<tKind, tParts, tText, tSegments, tEntries>>
    /\ UNCHANGED <<chunkVars, validateVars, runVars, attemptVars, progressVars>>

\* analyzeTranslationFailure(tSegments, tEntries)
TextAnalyze ==
    /\ tKind = "analysis"
    /\ tCall = "none"
    /\ tCall' = "analyzeTranslationFailure"
    /\ tResult' = AnalyzeTranslationFailure(tSegments, tEntries)
    /\ UNCHANGED <<tKind, tParts, tText, tSegments, tEntries>>
    /\ UNCHANGED <<chunkVars, validateVars, runVars, attemptVars, progressVars>>

TextNext ==
    \/ TextParseSRT
    \/ TextRoundTrip
    \/ TextWireRoundTrip
    \/ TextParseReply
    \/ TextValidateAndReconstruct
    \/ TextAnalyze

SpecText == TextInit /\ [][TextNext]_vars

MissingFromEntries ==
    SelectSeq(SetOrder(SequencesOf(tSegments)),
              LAMBDA n : \A i \in 1..Len(tEntries) : tEntries[i].number # n)

\* C12 as claimed: whenever the entries lack a sequence number of the
\* segments, validateTranslation throws the error that names the missing
\* numbers ("Missing translations for segments: ...").
C12_MissingNumberNamed ==
    (tCall = "validateAndReconstruct" /\ MissingFromEntries # <<>>) =>
        /\ tResult.validation.threw
        /\ tResult.validation.kind = "missing"
        /\ tResult.validation.listed = MissingFromEntries

\* C12 amended: when there are as many entries as segments and the entries
\* lack a sequence number of the segments, validateTranslation throws the
\* error that names the missing numbers; when the counts differ it throws
\* the count-mismatch error, which names no number.
C12_MissingNamedWhenCountsAgree ==
    tCall = "validateAndReconstruct" =>
        /\ (Len(tEntries) = Len(tSegments) /\ MissingFromEntries # <<>>) =>
              /\ tResult.validation.threw
              /\ tResult.validation.kind = "missing"
              /\ tResult.validation.listed = MissingFromEntries
        /\ Len(tEntries) # Len(tSegments) =>
              /\ tResult.validation.threw
              /\ tResult.validation.kind = "count"
              /\ tResult.validation.listed = <<>>

\* C12 witness: segments 1, 2 with entries 1, 3: the error names 2.
C12_Witness ==
    /\ tCall = "validateAndReconstruct"
    /\ SequencesOf(tSegments) = <<1, 2>>
    /\ NumbersOf(tEntries) = <<1, 3>>
    /\ tResult.validation.kind = "missing"
    /\ tResult.validation.listed = <<2>>

\* sub occurs in s
Contains(s, sub) ==
    \E p \in 1..(Len(s) - Len(sub) + 1) : SubSeq(s, p, p + Len(sub) - 1) = sub

\* C14 as claimed: a line that starts no entry and follows a started entry
\* is found, after a newline, in the text of a returned entry.
C14_ContinuationAppended ==
    tCall = "parseTranslatedTranscript" =>
        \A k \in 1..Len(tParts) :
            ( /\ ~tParts[k].entry
              /\ Trim(tParts[k].text) # ""
              /\ \E j \in 1..(k - 1) : tParts[j].entry )
            => \E i \in 1..Len(tResult.entries) :
                  Contains(tResult.entries[i].text, "\n" \o tParts[k].text)

\* C14 amended: parseTranslatedTranscript returns one entry per line that
\* starts an entry, in order, with the line's number and its own trimmed
\* text; every other line is dropped, wherever it stands; every input gives
\* a list (nothing is thrown).
C14_OtherLinesDropped ==
    tCall = "parseTranslatedTranscript" =>
        LET started == SelectSeq(tParts, LAMBDA line : line.entry)
        IN  tResult.entries =
                [i \in 1..Len(started) |->
                    [number |-> started[i].number, text |-> started[i].body]]

\* C14 witness: "1: First line", then a line that starts no entry, then
\* "2:Another entry  ": two entries, the first with the text "First line".
C14_Witness ==
    /\ tCall = "parseTranslatedTranscript"
    /\ Len(tParts) = 3
    /\ tParts[1].entry /\ ~tParts[2].entry /\ tParts[3].entry
    /\ Trim(tParts[2].text) # ""
    /\ Len(tResult.entries) = 2
    /\ tResult.entries[1].text = "First line"

\* the blocks parseSRTContent is to keep
IsValidBlock(block) == block.lines >= 3 /\ block.numeric /\ block.timed

SegmentOfBlock(block) ==
    [ sequence |-> block.sequence, startTime |-> block.startTime,
      endTime |-> block.endTime, text |-> block.body ]

\* C15: for a text whose blocks are all valid and carry distinct sequence
\* numbers, reconstructing the parsed segments with their own texts as the
\* translation gives a text that parses to the same segments: same count,
\* order, sequence numbers, start and end times and text.
C15_RoundTrip ==
    ( /\ tCall = "roundTrip"
      /\ \A i \in 1..Len(tParts) : IsValidBlock(tParts[i])
      /\ \A i, j \in 1..Len(tParts) :
            tParts[i].sequence = tParts[j].sequence => i = j )
    => /\ ~tResult.threw
       /\ Len(tResult.segments) = Len(tParts)
       /\ tResult.reparsed = tResult.segments

\* C15 witness: three valid blocks, one of them of two text lines and
\* written with other spacing than reconstructSRT uses, so that the rebuilt
\* text differs from the input.
C15_Witness ==
    /\ tCall = "roundTrip"
    /\ Len(tParts) = 3
    /\ Len(tResult.reparsed) = 3
    /\ \E i \in 1..3 : tParts[i].lines = 4
    /\ tResult.text # tText
    /\ tResult.reparsed = tResult.segments

\* C16: for the segments parseSRTContent returns, parseSRTLikeFormat of their
\* createSRTLikeFormat text is one entry per segment, in order, with the
\* segment's sequence as number and the segment's text.
C16_WireRoundTrip ==
    tCall = "wireRoundTrip" =>
        /\ Len(tResult.entries) = Len(tResult.segments)
        /\ \A i \in 1..Len(tResult.segments) :
              /\ tResult.entries[i].number = tResult.segments[i].sequence
              /\ tResult.entries[i].text = tResult.segments[i].text

\* C16 witness: three segments, one with a text of two lines, through the
\* wire format.
C16_Witness ==
    /\ tCall = "wireRoundTrip"
    /\ Len(tResult.segments) = 3
    /\ Len(tResult.entries) = 3
    /\ \E i \in 1..3 : Contains(tResult.entries[i].text, "\n")

\* C17: parseSRTContent returns the segments of exactly the blocks that have
\* at least 3 lines, a first line parseInt reads an integer from and a second
\* line of the form HH:MM:SS,mmm --> HH:MM:SS,mmm, in input order; the other
\* blocks leave no trace; countSRTSegments is the number of blocks kept.
C17_ParseKeepsValidBlocks ==
    tCall = "parseSRTContent" =>
        LET kept == SelectSeq(tParts, IsValidBlock)
        IN  /\ tResult.segments = [i \in 1..Len(kept) |-> SegmentOfBlock(kept[i])]
            /\ tResult.count = Len(kept)

\* C17 witness: a block of two lines between two valid blocks: two segments,
\* in the order of the input.
C17_Witness ==
    /\ tCall = "parseSRTContent"
    /\ Len(tParts) = 3
    /\ IsValidBlock(tParts[1])
    /\ tParts[2].lines = 2
    /\ IsValidBlock(tParts[3])
    /\ tParts[1].sequence > tParts[3].sequence
    /\ tResult.count = 2

-----------------------------------------------------------------------------
(* SpecAttempt: one call of translateChunkAttempt, await by await, with a   *)
(* request/response logger whose file writes can fail.                      *)

LoggerMethods == {"logRequest", "logResponse", "logError"}

\* what can go wrong when a logger method writes its file: nothing, mkdir
\* of the log directory rejects, writeFile rejects
WriteFailures == {"none", "mkdir", "writeFile"}

\* a logger method whose ensureLogDirectory() stands outside the try block,
\* as in FileLogWriter.write: a rejected mkdir rejects the call
LoggerCallUncaught(failure) ==
    [rejected |-> failure = "mkdir", written |-> failure = "none"]

\* LLMLogger.logRequest, logResponse, logError: ensureLogDirectory() and
\* writeFile() are awaited inside try { } catch { this.logger.error(...) },
\* so the returned promise resolves whatever the write did
LoggerCall(failure) ==
    [rejected |-> FALSE, written |-> failure = "none"]

\* the Error of a rejected logger call
LoggerError == [NoError EXCEPT !.threw = TRUE, !.kind = "logger"]

AttemptInit ==
    /\ \E translate \in SeqsUpTo(1..MaxValNum, MaxValLen) :
          LET translateSegments ==
                  [i \in 1..Len(translate) |-> SegmentNumbered(translate[i])]
          IN  aChunk = [ segments |-> translateSegments,
                         contextSegments |-> <<>>,
                         translateSegments |-> translateSegments,
                         chunkIndex |-> 0,
                         totalChunks |-> 1 ]
    /\ aReply \in BackendReplies(aChunk)
    /\ aLogFails \in [LoggerMethods -> WriteFailures]
    /\ aPc = "logRequest"
    /\ aLogged = <<>>
    /\ aError = NoError
    /\ aResult = <<>>
    /\ ChunkIdle
    /\ ValidateIdle
    /\ RunIdle
    /\ TextIdle
    /\ ProgressIdle

\* const requestId = await llmLogger.logRequest(...) (line 148), outside
\* every try block
AttemptLogRequest ==
    /\ aPc = "logRequest"
    /\ LET call == LoggerCall(aLogFails["logRequest"])
       IN  /\ aLogged' = Append(aLogged, [method |-> "logRequest", written |-> call.written])
           /\ IF call.rejected
              THEN aPc' = "threw" /\ aError' = LoggerError
              ELSE aPc' = "generate" /\ aError' = aError
    /\ UNCHANGED <<aChunk, aReply, aLogFails, aResult>>
    /\ UNCHANGED <<chunkVars, validateVars, runVars, textVars, progressVars>>

\* await model.models.generateContent(...) (line 162), in the try block: a
\* rejection goes to the catch block
AttemptGenerate ==
    /\ aPc = "generate"
    /\ IF aReply.failed
       THEN /\ aPc' = "logError"
            /\ aError' = [NoError EXCEPT !.threw = TRUE, !.kind = "backend",
                                         !.markers = aReply.markers]
       ELSE /\ aPc' = "logResponse"
            /\ aError' = aError
    /\ UNCHANGED <<aChunk, aReply, aLogFails, aLogged, aResult>>
    /\ UNCHANGED <<chunkVars, validateVars, runVars, textVars, progressVars>>

\* await llmLogger.logResponse(...) (line 173), in the same try block: a
\* rejection goes to the catch block
AttemptLogResponse ==
    /\ aPc = "logResponse"
    /\ LET call == LoggerCall(aLogFails["logResponse"])
       IN  /\ aLogged' = Append(aLogged, [method |-> "logResponse", written |-> call.written])
           /\ IF call.rejected
              THEN aPc' = "logError" /\ aError' = LoggerError
              ELSE aPc' = "validate" /\ aError' = aError
    /\ UNCHANGED <<aChunk, aReply, aLogFails, aResult>>
    /\ UNCHANGED <<chunkVars, validateVars, runVars, textVars, progressVars>>

\* the catch block (lines 184-202): await llmLogger.logError(...), then
\* throw error; a rejected logError is thrown in its place
AttemptLogError ==
    /\ aPc = "logError"
    /\ LET call == LoggerCall(aLogFails["logError"])
       IN  /\ aLogged' = Append(aLogged, [method |-> "logError", written |-> call.written])
           /\ aError' = IF call.rejected THEN LoggerError ELSE aError
    /\ aPc' = "threw"
    /\ UNCHANGED <<aChunk, aReply, aLogFails, aResult>>
    /\ UNCHANGED <<chunkVars, validateVars, runVars, textVars, progressVars>>

\* validateChunk(chunk, translatedEntries) (line 209), its failure rethrown
\* as "Chunk validation failed: ..." (line 242), else the entries returned
AttemptValidate ==
    /\ aPc = "validate"
    /\ LET error == ValidateChunk(aChunk, aReply.entries)
       IN  IF error.threw
           THEN /\ aPc' = "threw"
                /\ aError' = [error EXCEPT !.markers = @ \cup {"validation failed"}]
                /\ aResult' = aResult
           ELSE /\ aPc' = "returned"
                /\ aError' = aError
                /\ aResult' = aReply.entries
    /\ UNCHANGED <<aChunk, aReply, aLogFails, aLogged>>
    /\ UNCHANGED <<chunkVars, validateVars, runVars, textVars, progressVars>>

AttemptNext ==
    \/ AttemptLogRequest
    \/ AttemptGenerate
    \/ AttemptLogResponse
    \/ AttemptLogError
    \/ AttemptValidate

SpecAttempt == AttemptInit /\ [][AttemptNext]_vars

-----------------------------------------------------------------------------
(* Properties of Spec: backoff, concurrency, progress                       *)

\* C21: the timers a chunk's task has started are 1000 ms, then 2000 ms: one
\* after each failed attempt that is retried, of 1000 ms times the number of
\* that attempt; a task that has ended (at its third attempt or at a failure
\* that is not retried) started no timer after its last attempt.
C21_LinearBackoff ==
    \A c \in 1..Len(tasks) :
        LET task == tasks[c]
        IN  /\ task.waits =
                  [i \in 1..Len(task.waits) |-> BackoffUnitMs * i]
            /\ Len(task.waits) =
                  IF task.phase = "backoff" THEN task.attempt ELSE task.attempt - 1
            /\ Len(task.waits) <= MaxRetries - 1
            /\ task.phase \in {"resolved", "rejected"} =>
                  Len(task.waits) = Len(task.outcomes) - 1

\* C21 witness: a chunk rejected at its third attempt after waits of 1000 ms
\* and 2000 ms.
C21_Witness ==
    \E c \in 1..Len(tasks) :
        /\ tasks[c].phase = "rejected"
        /\ tasks[c].attempt = 3
        /\ tasks[c].waits = <<1000, 2000>>

\* C22: the step in which translateTranscript reaches Promise.all leaves a
\* task for every chunk with its first backend call outstanding, none held
\* back until another has completed; while it waits there, no chunk is
\* without a started task.
C22_AllChunksStartedTogether ==
    [][ /\ (pc = "start" /\ pc' = "awaitAll") =>
              /\ Len(tasks') = Len(chunks')
              /\ \A c \in 1..Len(tasks') :
                    tasks'[c].phase = "calling" /\ tasks'[c].attempt = 1
        /\ pc' = "awaitAll" =>
              \A c \in 1..Len(chunks') :
                 tasks'[c].phase \in {"calling", "backoff", "resolved", "rejected"}
      ]_vars

\* C22 witness: the backend calls of both chunks of a file are outstanding at
\* once, before any result has arrived.
C22_Witness ==
    /\ pc = "awaitAll"
    /\ Len(tasks) = 2
    /\ \A c \in 1..Len(tasks) : tasks[c].phase = "calling" /\ tasks[c].attempt = 1
    /\ arrival = <<>>

-----------------------------------------------------------------------------
(* Properties of SpecChunk: single chunk, stamping, progress of the loop    *)

\* C23: when createIntelligentChunks returns for a list of at most
\* maxChunkSize segments (the empty list and the exact fit included) the
\* result is one chunk without context that translates every segment, with
\* chunkIndex 0 and totalChunks 1; in every result chunk i (from 0) has
\* chunkIndex i and totalChunks equal to the number of chunks.
C23_SingleChunkAndStamps ==
    cPc = "done" =>
        /\ Len(cSegments) <= maxChunkSize =>
              cChunks = << [ segments |-> cSegments,
                             contextSegments |-> <<>>,
                             translateSegments |-> cSegments,
                             chunkIndex |-> 0,
                             totalChunks |-> 1 ] >>
        /\ \A i \in 1..Len(cChunks) :
              /\ cChunks[i].chunkIndex = i - 1
              /\ cChunks[i].totalChunks = Len(cChunks)

\* C23 witness: the exact fit, a list of maxChunkSize segments with a natural
\* break inside, returned as one chunk.
C23_Witness ==
    /\ cPc = "done"
    /\ maxChunkSize >= 3
    /\ Len(cSegments) = maxChunkSize
    /\ \E k \in 1..(Len(cSegments) - 1) : IsNaturalBreak(k)
    /\ Len(cChunks) = 1
    /\ cChunks[1].totalChunks = 1

\* C30 as claimed: every iteration of the loop adds a chunk with at least one
\* translate segment and leaves currentIndex larger than it was.
C30_EveryIterationAdvances ==
    [][ (cPc = "loop" /\ Len(cChunks') = Len(cChunks) + 1) =>
            /\ cChunks'[Len(cChunks')].translateSegments # <<>>
            /\ currentIndex' > currentIndex
      ]_vars

-----------------------------------------------------------------------------
(* Properties of SpecText: analyzeTranslationFailure                        *)

\* the numbers of the segments that no entry carries, and the numbers of the
\* entries that no segment carries
MissingSet == Range(SequencesOf(tSegments)) \ Range(NumbersOf(tEntries))
ExtraSet == Range(NumbersOf(tEntries)) \ Range(SequencesOf(tSegments))

StrictlyAscending(s) == \A i \in 1..(Len(s) - 1) : s[i] < s[i + 1]

\* C24: analyzeTranslationFailure returns the missing numbers and the extra
\* numbers each once and ascending; sequenceGaps are ranges start..end,
\* ascending with at least one number left out between two of them (disjoint
\* and not adjacent), that together hold exactly the missing numbers.
C24_GapsAreMaximalRuns ==
    tCall = "analyzeTranslationFailure" =>
        LET gaps == tResult.sequenceGaps
        IN  /\ StrictlyAscending(tResult.missingNumbers)
            /\ Range(tResult.missingNumbers) = MissingSet
            /\ StrictlyAscending(tResult.extraNumbers)
            /\ Range(tResult.extraNumbers) = ExtraSet
            /\ \A k \in 1..Len(gaps) : gaps[k].start <= gaps[k].end
            /\ \A k \in 1..(Len(gaps) - 1) : gaps[k].end + 1 < gaps[k + 1].start
            /\ UNION {gaps[k].start..gaps[k].end : k \in 1..Len(gaps)} = MissingSet

\* C24 witness: segments 5, 4, 3, 2, 1 with entries 3, 6: the missing
\* numbers 1, 2, 4, 5 come back as the ranges 1-2 and 4-5, the extra number
\* is 6.
C24_Witness ==
    /\ tCall = "analyzeTranslationFailure"
    /\ SequencesOf(tSegments) = <<5, 4, 3, 2, 1>>
    /\ tResult.missingNumbers = <<1, 2, 4, 5>>
    /\ tResult.extraNumbers = <<6>>
    /\ tResult.sequenceGaps = <<[start |-> 1, end |-> 2], [start |-> 4, end |-> 5]>>

-----------------------------------------------------------------------------
(* Properties of Spec: what runs after translateTranscript has settled      *)

\* translateTranscript has returned (and translateSRTContent gone on or
\* ended), or has rejected
HasReturned == pc \in {"translated", "returned", "threw"}
HasSettled == HasReturned \/ pc = "rejected"

\* C25 as claimed: once translateTranscript has settled, no task makes a
\* further step (backend call, retry, timer) and onProgress is not called
\* again.
C25_NothingRunsAfterSettled ==
    [][HasSettled => (tasks' = tasks /\ progressEvents' = progressEvents)]_vars

\* C25 amended: once translateTranscript has returned, no task makes a
\* further step and onProgress is not called again; once it has rejected,
\* the rejection, its error and the absence of a result stay as they are,
\* whatever the tasks of the other chunks, which are not cancelled, still do.
C25_OnlyReturnEndsTheTasks ==
    [][ /\ HasReturned => (tasks' = tasks /\ progressEvents' = progressEvents)
        /\ pc = "rejected" =>
              /\ pc' = "rejected"
              /\ translateError' = translateError
              /\ translatedEntries' = <<>>
              /\ output' = output
      ]_vars

\* C25 witness: the run rejected with the backend error of the first chunk's
\* only attempt; the second chunk went through two timers and three backend
\* calls, resolved, and its progress event was delivered.
C25_Witness ==
    /\ pc = "rejected"
    /\ Len(tasks) = 2
    /\ tasks[1].phase = "rejected"
    /\ tasks[1].outcomes = <<"backend">>
    /\ translateError = tasks[1].error
    /\ tasks[2].phase = "resolved"
    /\ tasks[2].waits = <<1000, 2000>>
    /\ Len(progressEvents) = 1

-----------------------------------------------------------------------------
(* SpecProgress: translateTranscript on transcripts of up to MaxTranscript  *)
(* entries, in the runs where the task of every chunk resolves.  Only what  *)
(* the progress reports depend on is kept: the chunk sizes, which chunks    *)
(* have resolved, the counter, the guard and the last report.               *)

\* the transcript createTranscript gives for a file of n segments numbered
\* from 1
TranscriptOf(n) == [i \in 1..n |-> [number |-> i, text |-> "text"]]

ProgressInit ==
    /\ pTotalSegments \in 0..MaxTranscript
    /\ pOnProgress \in BOOLEAN
    /\ pChunkSizes = <<>>
    /\ pResolved = {}
    /\ pCompletedSegments = 0
    /\ pProgressLock = FALSE
    /\ pCalls = 0
    /\ pLastEvent = <<>>
    /\ pPc = "start"
    /\ ChunkIdle
    /\ ValidateIdle
    /\ RunIdle
    /\ TextIdle
    /\ AttemptIdle

\* lines 265-354: the entries are rehydrated and chunked, and the task of
\* every chunk is started
ProgressStart ==
    /\ pPc = "start"
    /\ LET built == CreateIntelligentChunks(Rehydrate(TranscriptOf(pTotalSegments)),
                                            DefaultMaxChunkSize, DefaultContextSize)
       IN  pChunkSizes' = [i \in 1..Len(built) |-> Len(built[i].translateSegments)]
    /\ pPc' = "awaitAll"
    /\ UNCHANGED <<pTotalSegments, pOnProgress, pResolved, pCompletedSegments,
                   pProgressLock, pCalls, pLastEvent>>
    /\ UNCHANGED <<chunkVars, validateVars, runVars, textVars, attemptVars>>

\* lines 325-335: translateChunk of chunk c returns its entries, as many as
\* the chunk has translateSegments (validateChunk passed), and the callback
\* of the chunk runs updateProgress(chunkResult.entries.length)
ProgressChunkResolves(c) ==
    /\ pPc = "awaitAll"
    /\ c \in (1..Len(pChunkSizes)) \ pResolved
    /\ LET progress == UpdateProgress(pOnProgress, pProgressLock, pCompletedSegments,
                                      pTotalSegments, <<>>, pChunkSizes[c])
       IN  /\ pCompletedSegments' = progress.completedSegments
           /\ pCalls' = pCalls + Len(progress.progressEvents)
           /\ pLastEvent' = IF progress.progressEvents = <<>> THEN pLastEvent
                            ELSE progress.progressEvents[1]
    /\ pProgressLock' = FALSE
    /\ pResolved' = pResolved \cup {c}
    /\ UNCHANGED <<pTotalSegments, pOnProgress, pChunkSizes, pPc>>
    /\ UNCHANGED <<chunkVars, validateVars, runVars, textVars, attemptVars>>

\* lines 354-395: Promise.all fulfils, the final report is made, return
ProgressReturn ==
    /\ pPc = "awaitAll"
    /\ pResolved = 1..Len(pChunkSizes)
    /\ IF pOnProgress
       THEN /\ pCalls' = pCalls + 1
            /\ pLastEvent' = [ completed |-> pTotalSegments, total |-> pTotalSegments,
                               percentage |-> 100, isNaN |-> FALSE ]
       ELSE UNCHANGED <<pCalls, pLastEvent>>
    /\ pPc' = "returned"
    /\ UNCHANGED <<pTotalSegments, pOnProgress, pChunkSizes, pResolved,
                   pCompletedSegments, pProgressLock>>
    /\ UNCHANGED <<chunkVars, validateVars, runVars, textVars, attemptVars>>

ProgressNext ==
    \/ ProgressStart
    \/ \E c \in 1..Len(pChunkSizes) : ProgressChunkResolves(c)
    \/ ProgressReturn

SpecProgress == ProgressInit /\ [][ProgressNext]_vars

\* C26 as claimed: while translateTranscript waits and a chunk has not
\* resolved, the last progress report is below 100 %; a report of 100 % has
\* completed = total.
C26_HundredOnlyWhenComplete ==
    (pPc = "awaitAll" /\ pCalls > 0 /\ ~pLastEvent.isNaN) =>
        /\ pResolved # 1..Len(pChunkSizes) => pLastEvent.percentage < 100
        /\ pLastEvent.percentage = 100 => pLastEvent.completed = pLastEvent.total

\* C29: translateTranscript cuts a transcript of N entries into
\* max(1, ceil(N / 25)) chunks, every chunk but the last of exactly 25
\* translate segments and the last of the rest.
C29_ChunksOfTwentyFive ==
    pPc \in {"awaitAll", "returned"} =>
        LET count == Len(pChunkSizes)
        IN  /\ count = Max(1, (pTotalSegments + DefaultMaxChunkSize - 1)
                                  \div DefaultMaxChunkSize)
            /\ \A i \in 1..(count - 1) : pChunkSizes[i] = DefaultMaxChunkSize
            /\ pChunkSizes[count] =
                  pTotalSegments - DefaultMaxChunkSize * (count - 1)

\* C29 witness: 60 entries in chunks of 25, 25 and 10.
C29_Witness ==
    /\ pPc = "awaitAll"
    /\ pTotalSegments = 60
    /\ pChunkSizes = <<25, 25, 10>>

-----------------------------------------------------------------------------
(* Properties of Spec and SpecValidate: the progress guard, extra numbers   *)

\* C27: progressLock is clear whenever a task can run, so no call of
\* updateProgress is dropped: with a callback, onProgress has been called
\* once per resolved chunk (and once more when translateTranscript has
\* returned: number of chunks + 1 calls), and completedSegments is the
\* number of entries of the resolved chunks, the total segment count when
\* all have resolved, which is before the final call.
C27_NoProgressUpdateDropped ==
    /\ progressLock = FALSE
    /\ onProgress =>
          LET resolved == {c \in 1..Len(tasks) : tasks[c].phase = "resolved"}
          IN  /\ Len(progressEvents) =
                    Cardinality(resolved) + (IF Translated THEN 1 ELSE 0)
              /\ completedSegments =
                    Len(Flatten([c \in 1..Len(tasks) |-> tasks[c].entries]))
              /\ (pc = "awaitAll" /\ Cardinality(resolved) = Len(chunks)) =>
                    completedSegments = TotalSegments
              /\ Translated =>
                    /\ Len(progressEvents) = Len(chunks) + 1
                    /\ completedSegments = TotalSegments

\* C27 witness: a file of two chunks, one of them retried, translated with a
\* callback: three calls, the second reporting every segment.
C27_Witness ==
    /\ Translated
    /\ onProgress
    /\ Len(chunks) = 2
    /\ \E c \in 1..Len(tasks) : Len(tasks[c].outcomes) = 3
    /\ Len(progressEvents) = 3
    /\ progressEvents[2].completed = TotalSegments

\* C28: for a chunk (or file) whose expected sequence numbers are unique,
\* neither validateChunk nor validateTranslation throws the "Unexpected
\* segments" error; entries that hold a number that was not expected are
\* rejected by the count check or as missing translations.
C28_NoUnexpectedErrorWhenUnique ==
    LET expected == SequencesOf(vChunk.translateSegments)
        unexpected == Range(NumbersOf(vEntries)) \ Range(expected)
    IN  (ValidateCalled /\ Cardinality(Range(expected)) = Len(expected)) =>
            \A i \in 1..2 :
                /\ vResult[i].kind # "extra"
                /\ unexpected # {} => vResult[i].kind \in {"count", "missing"}

\* C28 witness: the numbers 1, 2 expected and 1, 4 returned: both validators
\* report the missing 2, not the unexpected 4.
C28_Witness ==
    /\ ValidateCalled
    /\ SequencesOf(vChunk.translateSegments) = <<1, 2>>
    /\ NumbersOf(vEntries) = <<1, 4>>
    /\ vResult[1].kind = "missing" /\ vResult[1].listed = <<2>>
    /\ vResult[2].kind = "missing" /\ vResult[2].listed = <<2>>

====
